---- MODULE Spec2Model ----
(***************************************************************************)
(* State-machine model of the cloudplow upload orchestrator                *)
(* (src/cloudplow.py, src/utils/uploader.py).                              *)
(*                                                                         *)
(* Units.  Byte quantities are counted in whole GiB (1024**3 bytes), so    *)
(* SA_DAILY_QUOTA = 750 and the thresholds "1 * 1024**3" and               *)
(* "10 * 1024**3" of do_upload are 1 and 10.  time.time() is counted in    *)
(* whole hours, so "time.time() + (60 * 60) * h" is now + h.  Time 0 is     *)
(* hour StartHour of weekday StartWeekday (0 is Monday).                    *)
(*                                                                         *)
(* Python dicts are functions whose DOMAIN is the set of keys; the value   *)
(* None of sa_delay[uploader][sa_file] is the integer None below, and an    *)
(* uploader without key in uploader_delay has uploader_delay = None.        *)
(*                                                                         *)
(* One uploader is modelled.  The bans and the quota ledger are persisted   *)
(* (the cache file and the ledger file), and the callers of do_upload are   *)
(* taken to work on the same persisted values.                              *)
(*                                                                         *)
(* utils.lock, utils.misc and utils.rclone are modelled by what their       *)
(* callers expect of them: lock.upload() is a mutual-exclusion lock,        *)
(* misc.get_lowest_remaining_time is the earliest ban expiry,               *)
(* misc.sorted_list_by_digit_asc sorts the identities, and the driver       *)
(* returns 0, 7, -9 (killed after __logic returned True) or an error code.  *)
(* The stage's Uploader is taken to accept the quota_callback that          *)
(* do_upload hands to it and to call it for every completed file of known   *)
(* size (see quota_callback below).  In the orchestrator specification      *)
(* chunked upload is disabled (chunked_upload.enabled is false, its         *)
(* default); the options of a stage are modelled with and without it in     *)
(* the planner specification.                                               *)
(***************************************************************************)
EXTENDS Integers, Sequences, FiniteSets, TLC

\* ------------------------------------------------------------------ bounds
NumSA == 2
MaxTime == 26
MaxBytes == 1200
MaxFiles == 3
MaxStages == 2
StartWeekday == 4
StartHour == 12

\* -------------------------------------------------------- program constants
SA_DAILY_QUOTA == 750
SA_QUOTA_RESET_HOURS == 24
SkipBelowGiB == 1
StageAboveGiB == 10
MaxTransferDelayHours == 25
TriggerLimitDelayHours == 25

None == -1
NoHolder == "nobody"
SAs == 1..NumSA
Proc == {"sched", "cli"}

\* sizes _get_file_size reports for a completed file (0: the size is unknown)
FileSizes == {0, 4}
\* the 'sleep' hours of the configured rclone_sleeps triggers
SleepHours == {6}
\* exit codes of the driver that mean neither success, max-transfer nor abort
ErrorCodes == {1, 9999}

VARIABLES
    now,             \* time.time(), in hours
    sa_quota_usage,  \* sa_quota_usage[uploader]: sa_file -> {bytes, reset_time, first_upload}
    sa_delay,        \* sa_delay[uploader]: sa_file -> None or the instant the ban ends
    uploader_delay,  \* uploader_delay[uploader]: None (no key) or the instant the ban ends
    sa_enabled,      \* sa_delay[uploader] is not None: the uploader has an identity directory
    cache_has_files, \* transferred_files_cache[uploader]['files'] is not empty
    upload_lock,     \* lock.upload(): the caller holding it, or NoHolder
    pc,              \* per caller of do_upload: "idle", "waiting" (at the free lock),
                     \* "blocked" (at the lock it found held) or "body"
    rpc,             \* position of the lock holder inside the body of do_upload
    run,             \* locals of the running do_upload
    drv,             \* the running driver invocation (Uploader.upload)
    obs,             \* what the run has done so far (history kept for the properties)
    last_tick,       \* outcome of the last scheduled_uploader call
    last_quota_op    \* the last call of the quota accountant, with what it saw and returned

vars == <<now, sa_quota_usage, sa_delay, uploader_delay, sa_enabled, cache_has_files,
          upload_lock, pc, rpc, run, drv, obs, last_tick, last_quota_op>>

\* ------------------------------------------------------ helpers on dicts
Max(a, b) == IF a >= b THEN a ELSE b

DictDel(d, k) == [x \in (DOMAIN d) \ {k} |-> d[x]]

DictPut(d, k, v) == [x \in (DOMAIN d) \cup {k} |-> IF x = k THEN v ELSE d[x]]

\* ------------------------------------------------------- quota accountant

\* get_sa_remaining_quota with the expiry test weakened to "past", not "at or past"
get_sa_remaining_quota_strict(usage, sa_file, t) ==
    IF sa_file \notin DOMAIN usage
    THEN [ret |-> SA_DAILY_QUOTA, usage |-> usage]
    ELSE IF t > usage[sa_file].reset_time
         THEN [ret |-> SA_DAILY_QUOTA, usage |-> DictDel(usage, sa_file)]
         ELSE [ret |-> Max(0, SA_DAILY_QUOTA - usage[sa_file].bytes), usage |-> usage]

\* get_sa_remaining_quota(uploader_remote, sa_file): the value returned and the
\* ledger it leaves (an expired entry is deleted by the call).
get_sa_remaining_quota(usage, sa_file, t) ==
    IF sa_file \notin DOMAIN usage
    THEN [ret |-> SA_DAILY_QUOTA, usage |-> usage]
    ELSE IF t >= usage[sa_file].reset_time
         THEN [ret |-> SA_DAILY_QUOTA, usage |-> DictDel(usage, sa_file)]
         ELSE [ret |-> Max(0, SA_DAILY_QUOTA - usage[sa_file].bytes), usage |-> usage]

\* the entry update_sa_quota_usage creates on the first use of an identity
NewQuotaEntry(t) ==
    [bytes |-> 0, reset_time |-> t + SA_QUOTA_RESET_HOURS, first_upload |-> t]

\* update_sa_quota_usage with the counter saturating at the daily quota
update_sa_quota_usage_saturating(usage, sa_file, bytes_uploaded, t) ==
    LET e == IF sa_file \in DOMAIN usage THEN usage[sa_file] ELSE NewQuotaEntry(t)
        b == e.bytes + bytes_uploaded
    IN  DictPut(usage, sa_file,
                [e EXCEPT !.bytes = IF b > SA_DAILY_QUOTA THEN SA_DAILY_QUOTA ELSE b])

\* update_sa_quota_usage(uploader_remote, sa_file, bytes_uploaded)
update_sa_quota_usage(usage, sa_file, bytes_uploaded, t) ==
    LET e == IF sa_file \in DOMAIN usage THEN usage[sa_file] ELSE NewQuotaEntry(t)
    IN  DictPut(usage, sa_file, [e EXCEPT !.bytes = e.bytes + bytes_uploaded])

\* the entries cleanup_expired_quotas deletes
ExpiredQuotas(usage, t) == {s \in DOMAIN usage : t >= usage[s].reset_time}

\* cleanup_expired_quotas(): the ledger and the identity bans it leaves
cleanup_expired_quotas(usage, delay, t) ==
    LET gone == ExpiredQuotas(usage, t)
    IN  [usage |-> [s \in (DOMAIN usage) \ gone |-> usage[s]],
         delay |-> [s \in DOMAIN delay |-> IF s \in gone THEN None ELSE delay[s]]]

\* --------------------------------------------------------------- bans

\* check_suspended_sa(uploader): bans whose expiry is in the past are cleared
check_suspended_sa(delay, t) ==
    [s \in DOMAIN delay |-> IF delay[s] # None /\ t > delay[s] THEN None ELSE delay[s]]

\* check_suspended_uploaders with the expiry test widened to "at or before"
check_suspended_uploaders_inclusive(udelay, t) ==
    IF udelay # None /\ t <= udelay
    THEN [suspended |-> TRUE, udelay |-> udelay]
    ELSE [suspended |-> FALSE, udelay |-> None]

\* check_suspended_uploaders(uploader): whether the uploader is still suspended,
\* and the uploader ban the call leaves (an expired one is popped)
check_suspended_uploaders(udelay, t) ==
    IF udelay # None /\ t < udelay
    THEN [suspended |-> TRUE, udelay |-> udelay]
    ELSE [suspended |-> FALSE, udelay |-> None]

SetMin(S) == CHOOSE x \in S : \A y \in S : x <= y

BanTimes(delay) == {delay[s] : s \in {x \in DOMAIN delay : delay[x] # None}}

\* misc.get_lowest_remaining_time(sa_delay[uploader]): the earliest ban expiry
get_lowest_remaining_time(delay) ==
    IF BanTimes(delay) = {} THEN None ELSE SetMin(BanTimes(delay))

\* misc.sorted_list_by_digit_asc: the identities in ascending order
RECURSIVE SortedSeq(_)
SortedSeq(S) ==
    IF S = {} THEN <<>> ELSE <<SetMin(S)>> \o SortedSeq(S \ {SetMin(S)})

\* the candidates taken without regard to the bans
available_accounts_all(delay) == SortedSeq(DOMAIN delay)

\* do_upload: the identities without ban, sorted
available_accounts(delay) == SortedSeq({s \in DOMAIN delay : delay[s] = None})

\* --------------------------------------------------------------- planner

\* int(r * 0.7) in double arithmetic is one below the exact floor for these r
FloatLoss07 == {330, 340, 350, 360}

\* calculate_stage_params_quota_based(remaining_quota_bytes), sizes in GiB
calculate_stage_params_quota_based(r) ==
    IF r * 100 >= 80 * SA_DAILY_QUOTA
    THEN [max_transfer |-> (r * 5) \div 10, max_size |-> (r * 8) \div 10, transfers |-> 8,
          strategy |-> "aggressive_fresh_sa", order_by |-> "size,desc", max_backlog |-> 2000]
    ELSE IF r * 100 >= 50 * SA_DAILY_QUOTA
    THEN [max_transfer |-> (r * 6) \div 10, max_size |-> (r * 5) \div 10, transfers |-> 4,
          strategy |-> "moderate_mid_sa", order_by |-> "size,desc", max_backlog |-> 1000]
    ELSE IF r * 100 >= 25 * SA_DAILY_QUOTA
    THEN [max_transfer |-> (r * 7) \div 10 - (IF r \in FloatLoss07 THEN 1 ELSE 0),
          max_size |-> (r * 3) \div 10, transfers |-> 6,
          strategy |-> "cautious_low_quota", order_by |-> "", max_backlog |-> None]
    ELSE [max_transfer |-> (r * 8) \div 10, max_size |-> (r * 2) \div 10, transfers |-> 8,
          strategy |-> "conservative_cleanup", order_by |-> "", max_backlog |-> None]

\* the parameters of a driver run outside the staged identity loop
NoParams ==
    [max_transfer |-> None, max_size |-> None, transfers |-> None,
     strategy |-> "", order_by |-> "", max_backlog |-> None]

\* ------------------------------------------------------- Uploader.upload

\* datetime.datetime.now().weekday() in [5, 6]
IsWeekend(t) == ((StartWeekday + ((StartHour + t) \div 24)) % 7) \in {5, 6}

\* Uploader.upload: what it returns for the driver's (upload_status, return_code);
\* delayed_check is the value __logic left in self.delayed_check
upload_response(upload_status, return_code, delayed_check, cached) ==
    IF return_code = 7
    THEN [success |-> TRUE, delayed_check |-> MaxTransferDelayHours,
          delayed_trigger |-> "Rclone's 'Max Transfer Reached' signal",
          cached_files_excluded |-> cached]
    ELSE IF return_code = -9
    THEN [success |-> TRUE, delayed_check |-> TriggerLimitDelayHours,
          delayed_trigger |-> "Trigger reached limit", cached_files_excluded |-> cached]
    ELSE IF upload_status /\ return_code = 0
    THEN [success |-> TRUE, delayed_check |-> delayed_check,
          delayed_trigger |-> "", cached_files_excluded |-> cached]
    ELSE IF return_code = 9999
    THEN [success |-> FALSE, delayed_check |-> delayed_check,
          delayed_trigger |-> "Rclone exception occured", cached_files_excluded |-> cached]
    ELSE [success |-> FALSE, delayed_check |-> delayed_check,
          delayed_trigger |-> "Unhandled situation", cached_files_excluded |-> cached]

\* bytes of the ledger entry of an identity, 0 when it has none
LedgerBytes(usage, sa_file) ==
    IF sa_file \in DOMAIN usage THEN usage[sa_file].bytes ELSE 0

\* update_quota_realtime that charges nothing
update_quota_realtime_dropped(usage, sa_file, bytes_delta, t) == usage

\* do_upload.update_quota_realtime(bytes_delta), the quota callback of a stage
update_quota_realtime(usage, sa_file, bytes_delta, t) ==
    update_sa_quota_usage(usage, sa_file, bytes_delta, t)

\* The completion handler hands the size of every completed file to the stage's
\* quota callback.  cloudplow.py passes the callback as quota_callback= when it
\* builds the stage's Uploader; the Uploader class of src/utils/uploader.py has
\* no such parameter and its __logic makes no such call, so the delivery is
\* modelled from the specification ("on each completion the quota accountant
\* increments the ledger").
quota_callback(usage, sa_file, file_size, t) ==
    IF sa_file # None /\ file_size > 0
    THEN update_quota_realtime(usage, sa_file, file_size, t)
    ELSE usage

\* ----------------------------------------------------------- idle values

RunIdle ==
    [available_accounts |-> <<>>, i |-> 0, sa_file |-> None, sa_quota_remaining |-> 0,
     stage_number |-> 0, resp_bound |-> FALSE, resp_cached |-> FALSE,
     resp_delay |-> 0, resp_success |-> FALSE, nzbget_paused |-> FALSE]

DrvIdle ==
    [sa |-> None, files |-> 0, bytes |-> 0, start_bytes |-> 0, cached |-> FALSE,
     params |-> NoParams]

ObsIdle ==
    [launches |-> 0, files |-> 0, last_end |-> "none", last_sa |-> None, last_h |-> 0,
     last_start |-> 0, last_files |-> 0, last_sum |-> 0, err |-> FALSE, raised |-> FALSE]

TickNone == [result |-> "none", measured |-> FALSE]

QuotaOpNone ==
    [op |-> "none", sa |-> None, ret |-> 0, had_entry |-> FALSE, expired |-> FALSE,
     at_reset |-> FALSE, bytes |-> 0]

EmptyDict == [s \in {} |-> None]

\* ===========================================================================
\* The quota accountant on its own: any sequence of charge, remaining and sweep
\* calls, with time passing in between.
\* ===========================================================================

\* the byte counts handed to update_sa_quota_usage
ChargeDeltas == {450, 750}
\* hours between two calls
QuotaStep == SA_QUOTA_RESET_HOURS

InitQuota ==
    /\ now = 0
    /\ sa_quota_usage = EmptyDict
    /\ sa_delay = [s \in SAs |-> None]
    /\ uploader_delay = None
    /\ sa_enabled = TRUE
    /\ cache_has_files = FALSE
    /\ upload_lock = NoHolder
    /\ pc = [p \in Proc |-> "idle"]
    /\ rpc = "none"
    /\ run = RunIdle
    /\ drv = DrvIdle
    /\ obs = ObsIdle
    /\ last_tick = TickNone
    /\ last_quota_op = QuotaOpNone

QuotaFrame ==
    UNCHANGED <<uploader_delay, sa_enabled, cache_has_files, upload_lock, pc, rpc, run,
                drv, obs, last_tick>>

\* what a call saw in the ledger
QuotaSaw(op, sa, ret) ==
    [op |-> op, sa |-> sa, ret |-> ret,
     had_entry |-> sa \in DOMAIN sa_quota_usage,
     expired |-> sa \in DOMAIN sa_quota_usage /\ now >= sa_quota_usage[sa].reset_time,
     at_reset |-> sa \in DOMAIN sa_quota_usage /\ now = sa_quota_usage[sa].reset_time,
     bytes |-> LedgerBytes(sa_quota_usage, sa)]

QCharge(sa, delta) ==
    /\ LedgerBytes(sa_quota_usage, sa) + delta <= MaxBytes
    /\ sa_quota_usage' = update_sa_quota_usage(sa_quota_usage, sa, delta, now)
    /\ last_quota_op' = QuotaSaw("charge", sa, delta)
    /\ UNCHANGED <<now, sa_delay>>
    /\ QuotaFrame

QRemaining(sa) ==
    LET r == get_sa_remaining_quota(sa_quota_usage, sa, now)
    IN  /\ sa_quota_usage' = r.usage
        /\ last_quota_op' = QuotaSaw("remaining", sa, r.ret)
        /\ UNCHANGED <<now, sa_delay>>
        /\ QuotaFrame

QSweep ==
    LET c == cleanup_expired_quotas(sa_quota_usage, sa_delay, now)
    IN  /\ sa_quota_usage' = c.usage
        /\ sa_delay' = c.delay
        /\ last_quota_op' = QuotaSaw("sweep", None, 0)
        /\ UNCHANGED now
        /\ QuotaFrame

QTick ==
    /\ now + QuotaStep <= MaxTime
    /\ now' = now + QuotaStep
    /\ UNCHANGED <<sa_quota_usage, sa_delay, last_quota_op>>
    /\ QuotaFrame

NextQuota ==
    \/ \E sa \in SAs, delta \in ChargeDeltas : QCharge(sa, delta)
    \/ \E sa \in SAs : QRemaining(sa)
    \/ QSweep
    \/ QTick

SpecQuota == InitQuota /\ [][NextQuota]_vars

\* C2: a remaining-quota call never returns a negative value, returns the daily
\* quota when the identity has no ledger entry, and returns the daily quota
\* when the time is at or past the entry's reset time, in which case the call
\* has deleted the entry.
C2_RemainingQuota ==
    last_quota_op.op = "remaining" =>
        /\ last_quota_op.ret >= 0
        /\ ~last_quota_op.had_entry => last_quota_op.ret = SA_DAILY_QUOTA
        /\ last_quota_op.expired =>
              /\ last_quota_op.ret = SA_DAILY_QUOTA
              /\ last_quota_op.sa \notin DOMAIN sa_quota_usage

\* a remaining-quota call made exactly at the reset time of an entry whose
\* counter is above the quota
C2_Witness ==
    /\ last_quota_op.op = "remaining"
    /\ last_quota_op.had_entry
    /\ last_quota_op.expired
    /\ last_quota_op.bytes > SA_DAILY_QUOTA
    /\ last_quota_op.at_reset

BaseFlags == {"--order-by", "--max-backlog", "--min-age", "--max-age", "--skip-links",
              "--max-size"}

\* what a base configuration holds for its flags (sizes in GiB)
BaseValue(flag) ==
    IF flag = "--order-by" THEN "modtime,asc"
    ELSE IF flag = "--max-backlog" THEN 500
    ELSE IF flag = "--max-size" THEN 50
    ELSE IF flag = "--skip-links" THEN ""
    ELSE "15m"

\* the flags of the base configurations tried
BaseFlagSets ==
    {{}, {"--order-by", "--max-backlog"}, {"--min-age", "--max-age", "--skip-links", "--max-size"},
     BaseFlags}

\* rclone_config of the uploader: without the key 'rclone_extras', or with it
BaseConfigs ==
    {[present |-> FALSE, opts |-> EmptyDict]}
    \cup {[present |-> TRUE, opts |-> [f \in S |-> BaseValue(f)]] : S \in BaseFlagSets}

\* the remaining quota found after a stage: one value in each band
StageQuotas == {620, 400, 200, 20}

\* the planner's parameters written into the options, with the base's
\* --order-by and --max-backlog left as they are when the planner gives none
apply_stage_params_keeping(extras, stage_params) ==
    LET sized == DictPut(DictPut(DictPut(DictPut(extras,
                    "--max-transfer", stage_params.max_transfer),
                    "--max-size", stage_params.max_size),
                    "--transfers", stage_params.transfers),
                    "--cutoff-mode", "cautious")
        ordered == IF stage_params.order_by # ""
                   THEN DictPut(sized, "--order-by", stage_params.order_by)
                   ELSE sized
    IN  IF stage_params.max_backlog # None
        THEN DictPut(ordered, "--max-backlog", stage_params.max_backlog)
        ELSE ordered

\* do_upload, "Apply dynamic parameters" and "Apply dynamic ordering flags":
\* the options after the planner's parameters are written into them ("nG" is n,
\* str(max_backlog) is max_backlog)
apply_stage_params(extras, stage_params) ==
    LET sized == DictPut(DictPut(DictPut(DictPut(extras,
                    "--max-transfer", stage_params.max_transfer),
                    "--max-size", stage_params.max_size),
                    "--transfers", stage_params.transfers),
                    "--cutoff-mode", "cautious")
        ordered == IF stage_params.order_by # ""
                   THEN DictPut(sized, "--order-by", stage_params.order_by)
                   ELSE DictDel(sized, "--order-by")
    IN  IF stage_params.max_backlog # None
        THEN DictPut(ordered, "--max-backlog", stage_params.max_backlog)
        ELSE DictDel(ordered, "--max-backlog")

\* filter_flags_to_remove and conflicting_flags of do_upload
ChunkStripped == {"--min-age", "--max-age", "--skip-links", "--max-size", "--order-by",
                  "--max-backlog"}

\* the chunked-mode removal with the filter flags left in
remove_for_chunking_conflicts_only(extras, use_chunking) ==
    IF use_chunking
    THEN [f \in (DOMAIN extras) \ {"--order-by", "--max-backlog"} |-> extras[f]]
    ELSE extras

\* do_upload, "For chunked uploads, remove flags incompatible with --files-from"
remove_for_chunking(extras, use_chunking) ==
    IF use_chunking
    THEN [f \in (DOMAIN extras) \ ChunkStripped |-> extras[f]]
    ELSE extras

\* dynamic_rclone_config['rclone_extras'] as the stage's Uploader gets it
stage_rclone_extras(base, stage_params, use_chunking) ==
    remove_for_chunking(
        apply_stage_params(IF base.present THEN base.opts ELSE EmptyDict, stage_params),
        use_chunking)

\* In this specification run holds the locals of do_upload the stage reads, and
\* drv the configuration of the stage's Uploader together with the options
\* rclone_config held before the stage.
InitPlanner ==
    /\ now = 0
    /\ sa_quota_usage = EmptyDict
    /\ sa_delay = [s \in SAs |-> None]
    /\ uploader_delay = None
    /\ sa_enabled = TRUE
    /\ cache_has_files = FALSE
    /\ upload_lock = NoHolder
    /\ pc = [p \in Proc |-> "idle"]
    /\ rpc = "stage"
    /\ \E r \in 0..SA_DAILY_QUOTA, base \in BaseConfigs, use_chunking \in BOOLEAN :
          run = [sa_quota_remaining |-> r, rclone_config |-> base,
                 use_chunking |-> use_chunking]
    /\ drv = [params |-> NoParams, extras |-> EmptyDict, base |-> EmptyDict]
    /\ obs = ObsIdle
    /\ last_tick = TickNone
    /\ last_quota_op = QuotaOpNone

PlannerFrame ==
    UNCHANGED <<now, sa_quota_usage, sa_delay, uploader_delay, sa_enabled, cache_has_files,
                upload_lock, pc, obs, last_tick, last_quota_op>>

\* the head of the stage loop's body, up to the construction of the stage's
\* Uploader.  rclone_config.copy() is a shallow copy: the dict under
\* 'rclone_extras' is the uploader's own, and what the stage writes stays in it.
plan_stage ==
    LET stage_params == calculate_stage_params_quota_based(run.sa_quota_remaining)
        extras == stage_rclone_extras(run.rclone_config, stage_params, run.use_chunking)
    IN  /\ rpc = "stage"
        /\ drv' = [params |-> stage_params, extras |-> extras,
                   base |-> run.rclone_config.opts]
        /\ run' = IF run.rclone_config.present
                  THEN [run EXCEPT !.rclone_config.opts = extras]
                  ELSE run
        /\ rpc' = "driving"
        /\ PlannerFrame

\* the stage is over and the remaining quota is read again
stage_over(r) ==
    /\ rpc = "driving"
    /\ run' = [run EXCEPT !.sa_quota_remaining = r]
    /\ rpc' = "stage"
    /\ UNCHANGED drv
    /\ PlannerFrame

NextPlanner ==
    \/ plan_stage
    \/ \E r \in StageQuotas : stage_over(r)

SpecPlanner == InitPlanner /\ [][NextPlanner]_vars

\* floor of num/den of r, in GiB
FloorOf(r, num, den) == (r * num) \div den

\* C15: for every remaining quota between 0 and the daily quota the planner
\* picks the band by p = R / Q_d with inclusive lower bounds 0.80, 0.50, 0.25 and
\* returns the band's values, max_transfer and max_size being the floors in GiB
\* of the band's fractions of R.
C15_PlannerBands ==
    rpc = "driving" =>
        LET r == run.sa_quota_remaining
        IN  drv.params =
              IF 100 * r >= 80 * SA_DAILY_QUOTA
              THEN [max_transfer |-> FloorOf(r, 5, 10), max_size |-> FloorOf(r, 8, 10),
                    transfers |-> 8, strategy |-> "aggressive_fresh_sa",
                    order_by |-> "size,desc", max_backlog |-> 2000]
              ELSE IF 100 * r >= 50 * SA_DAILY_QUOTA
              THEN [max_transfer |-> FloorOf(r, 6, 10), max_size |-> FloorOf(r, 5, 10),
                    transfers |-> 4, strategy |-> "moderate_mid_sa",
                    order_by |-> "size,desc", max_backlog |-> 1000]
              ELSE IF 100 * r >= 25 * SA_DAILY_QUOTA
              THEN [max_transfer |-> FloorOf(r, 7, 10), max_size |-> FloorOf(r, 3, 10),
                    transfers |-> 6, strategy |-> "cautious_low_quota",
                    order_by |-> "", max_backlog |-> None]
              ELSE [max_transfer |-> FloorOf(r, 8, 10), max_size |-> FloorOf(r, 2, 10),
                    transfers |-> 8, strategy |-> "conservative_cleanup",
                    order_by |-> "", max_backlog |-> None]

\* C16: the options of a stage planned as cautious_low_quota or
\* conservative_cleanup hold neither --order-by nor --max-backlog, whatever the
\* base configuration holds, and the options of every stage hold
\* --cutoff-mode = cautious.
C16_LowBandsUnordered ==
    rpc = "driving" =>
        /\ "--cutoff-mode" \in DOMAIN drv.extras
        /\ drv.extras["--cutoff-mode"] = "cautious"
        /\ drv.params.strategy \in {"cautious_low_quota", "conservative_cleanup"} =>
              {"--order-by", "--max-backlog"} \cap DOMAIN drv.extras = {}

\* a low-quota stage of an uploader whose configuration held --order-by and
\* --max-backlog before the stage
C16_Witness ==
    /\ rpc = "driving"
    /\ ~run.use_chunking
    /\ drv.params.strategy = "cautious_low_quota"
    /\ {"--order-by", "--max-backlog"} \subseteq DOMAIN drv.base
    /\ {"--order-by", "--max-backlog"} \cap DOMAIN drv.extras = {}

\* C17: with chunked mode active, the options of a stage hold none of
\* --order-by, --max-backlog, --min-age, --max-age, --skip-links and --max-size.
C17_ChunkedStripsFilters ==
    (rpc = "driving" /\ run.use_chunking) => ChunkStripped \cap DOMAIN drv.extras = {}

\* a chunked stage in the fresh band (the planner gives --order-by, --max-backlog
\* and --max-size) of an uploader whose configuration held all six flags
C17_Witness ==
    /\ rpc = "driving"
    /\ run.use_chunking
    /\ drv.params.strategy = "aggressive_fresh_sa"
    /\ BaseFlags \subseteq DOMAIN drv.base
    /\ ChunkStripped \cap DOMAIN drv.extras = {}
    /\ "--max-transfer" \in DOMAIN drv.extras

\* ===========================================================================
\* The trigger tracking of Uploader.__logic on its own: the output lines of one
\* driver invocation after the other, for one trigger of rclone_sleeps.  Here
\* time.time() is counted in seconds.
\* ===========================================================================

\* bounds of the trigger specification
MaxCount == 3
MaxSeconds == 5
MaxHits == 4

\* the 'timeout' seconds of the trigger
TriggerTimeouts == {2, 3}

\* trigger_tracks without the key of the trigger
NoTrack == [tracked |-> FALSE, count |-> 0, expires |-> None]

\* the expiry check that never resets
expire_track_never(track, t) == track

\* __logic, "check/reset trigger timeout": expires = None stands for ''
expire_track(track, t) ==
    IF track.tracked /\ track.expires # None /\ t >= track.expires
    THEN [tracked |-> TRUE, count |-> 0, expires |-> None]
    ELSE track

\* the occurrence count that aborts only above the trigger's count
track_occurrence_late(track, trigger_config, t) ==
    IF ~track.tracked \/ track.count = 0
    THEN [track |-> [tracked |-> TRUE, count |-> 1, expires |-> t + trigger_config.timeout],
          abort |-> FALSE]
    ELSE [track |-> [track EXCEPT !.count = track.count + 1],
          abort |-> track.count + 1 > trigger_config.count]

\* __logic, "check if trigger_text is in data" when it is: the tracking entry
\* left, and whether __logic returns True
track_occurrence(track, trigger_config, t) ==
    IF ~track.tracked \/ track.count = 0
    THEN [track |-> [tracked |-> TRUE, count |-> 1, expires |-> t + trigger_config.timeout],
          abort |-> FALSE]
    ELSE [track |-> [track EXCEPT !.count = track.count + 1],
          abort |-> track.count + 1 >= trigger_config.count]

\* Uploader.__logic(data) for one trigger; has_phrase: trigger_text is in data
Uploader_logic(track, trigger_config, t, has_phrase) ==
    IF has_phrase
    THEN track_occurrence(expire_track(track, t), trigger_config, t)
    ELSE [track |-> expire_track(track, t), abort |-> FALSE]

\* In this specification drv is the Uploader of the invocation (its trigger, its
\* trigger_tracks and delayed_check) and obs records the lines seen.
NewUpload(trigger_config) ==
    [rclone_sleeps |-> trigger_config, trigger_tracks |-> NoTrack, delayed_check |-> 0,
     aborted |-> FALSE]

NoLines ==
    [hits |-> <<>>, last_hit |-> FALSE, last_expired |-> FALSE, last_count |-> 0,
     last_at |-> 0]

InitTrigger ==
    /\ now = 0
    /\ sa_quota_usage = EmptyDict
    /\ sa_delay = [s \in SAs |-> None]
    /\ uploader_delay = None
    /\ sa_enabled = FALSE
    /\ cache_has_files = FALSE
    /\ upload_lock = NoHolder
    /\ pc = [p \in Proc |-> "idle"]
    /\ rpc = "driving"
    /\ run = RunIdle
    /\ \E count \in 1..MaxCount, timeout \in TriggerTimeouts, sleep \in SleepHours :
          drv = NewUpload([count |-> count, timeout |-> timeout, sleep |-> sleep])
    /\ obs = NoLines
    /\ last_tick = TickNone
    /\ last_quota_op = QuotaOpNone

TriggerFrame ==
    UNCHANGED <<sa_quota_usage, sa_delay, uploader_delay, sa_enabled, cache_has_files,
                upload_lock, pc, rpc, run, last_tick, last_quota_op>>

\* the driver prints a line and rclone.upload hands it to __logic
logic_line(has_phrase) ==
    LET res == Uploader_logic(drv.trigger_tracks, drv.rclone_sleeps, now, has_phrase)
    IN  /\ ~drv.aborted
        /\ has_phrase => Len(obs.hits) < MaxHits
        /\ drv' = [drv EXCEPT !.trigger_tracks = res.track,
                              !.aborted = res.abort,
                              !.delayed_check = IF res.abort THEN drv.rclone_sleeps.sleep
                                                ELSE drv.delayed_check]
        /\ obs' = [hits |-> IF has_phrase THEN Append(obs.hits, now) ELSE obs.hits,
                   last_hit |-> has_phrase,
                   last_expired |-> /\ drv.trigger_tracks.expires # None
                                    /\ now >= drv.trigger_tracks.expires,
                   last_count |-> drv.trigger_tracks.count,
                   last_at |-> now]
        /\ UNCHANGED now
        /\ TriggerFrame

\* a second passes while the driver runs
second_passes ==
    /\ ~drv.aborted
    /\ now < MaxSeconds
    /\ now' = now + 1
    /\ UNCHANGED <<drv, obs>>
    /\ TriggerFrame

\* Uploader.upload is called again: delayed_check and trigger_tracks start anew
upload_again ==
    /\ drv.aborted
    /\ drv' = NewUpload(drv.rclone_sleeps)
    /\ obs' = NoLines
    /\ UNCHANGED now
    /\ TriggerFrame

NextTrigger ==
    \/ \E has_phrase \in BOOLEAN : logic_line(has_phrase)
    \/ second_passes
    \/ upload_again

SpecTrigger == InitTrigger /\ [][NextTrigger]_vars

\* The window opened by the first occurrence: the occurrences of hits counted as
\* the claims count them, a window of timeout seconds starting at the first
\* occurrence and the occurrence after its end starting the next one.
RECURSIVE WindowScan(_, _)
WindowScan(hits, timeout) ==
    IF hits = <<>>
    THEN [start |-> 0, n |-> 0]
    ELSE LET before == WindowScan(SubSeq(hits, 1, Len(hits) - 1), timeout)
             t == hits[Len(hits)]
         IN  IF before.n = 0 \/ t >= before.start + timeout
             THEN [start |-> t, n |-> 1]
             ELSE [start |-> before.start, n |-> before.n + 1]

\* occurrences counted in the window the last occurrence falls into
WindowCount == WindowScan(obs.hits, drv.rclone_sleeps.timeout).n

\* C18: the invocation is aborted on the line that is the count-th occurrence
\* inside the window opened by the first occurrence, and not before, for every
\* count >= 1 (count = 1: on the first matching line).
C18_AbortsOnCountth ==
    drv.aborted <=> WindowCount >= drv.rclone_sleeps.count

\* some count-many occurrences lie within a span shorter than timeout seconds
BurstSeen ==
    \E i \in 1..Len(obs.hits) :
        /\ i + drv.rclone_sleeps.count - 1 <= Len(obs.hits)
        /\ obs.hits[i + drv.rclone_sleeps.count - 1] - obs.hits[i] < drv.rclone_sleeps.timeout

\* C19 as stated: the window slides, so count-many occurrences within any span
\* of timeout seconds abort the invocation (stated for a count of at least 2,
\* where the first occurrence is not the one that should abort).
C19_SlidingWindow ==
    (drv.rclone_sleeps.count >= 2 /\ BurstSeen) => drv.aborted

\* C19 amended: the window is anchored at the occurrence that opens it and is
\* not moved: the invocation is aborted exactly when the occurrences counted in
\* one window reach the count (and at least 2, the opening occurrence never
\* aborting); count-many occurrences within timeout seconds that lie on both
\* sides of the end of a window do not abort.
C19_AnchoredWindow ==
    drv.aborted <=> WindowCount >= Max(drv.rclone_sleeps.count, 2)

\* three occurrences within less than timeout seconds, the window having ended
\* between the second and the third of them: no abort
C19_Witness ==
    /\ drv.rclone_sleeps.count = 3
    /\ BurstSeen
    /\ ~drv.aborted
    /\ obs.last_hit
    /\ WindowCount = 2

\* C20: an occurrence that finds the window expired does not abort; it is
\* counted as the first of a new window that expires timeout seconds later.
C20_ExpiredWindowRestarts ==
    (obs.last_hit /\ obs.last_expired) =>
        /\ ~drv.aborted
        /\ drv.trigger_tracks =
              [tracked |-> TRUE, count |-> 1,
               expires |-> obs.last_at + drv.rclone_sleeps.timeout]

\* the window expired after count - 1 occurrences and the next occurrence
\* has opened a new one
C20_Witness ==
    /\ drv.rclone_sleeps.count >= 2
    /\ obs.last_hit
    /\ obs.last_expired
    /\ obs.last_count = drv.rclone_sleeps.count - 1
    /\ ~drv.aborted
    /\ drv.trigger_tracks.count = 1

\* ===========================================================================
\* Uploader.__logic with several triggers: rclone_sleeps is scanned in the
\* order of the configuration (a dict keeps its insertion order), here the
\* order of the indices 1..NumTriggers.  time.time() is counted in seconds.
\* ===========================================================================

NumTriggers == 2

\* the 'count' of a trigger
ScanCounts == {1, 2}

\* the 'sleep' hours of trigger i, different for every trigger
ScanSleep(i) == 5 + i

\* nothing aborted yet
NoAbort == 0

\* the scan that goes on after a trigger aborted: the last one reaching its
\* count is reported
RECURSIVE scan_triggers_through(_, _, _, _, _)
scan_triggers_through(tracks, configs, t, present, i) ==
    IF i > Len(configs)
    THEN [tracks |-> tracks, delayed_trigger |-> NoAbort]
    ELSE LET res  == Uploader_logic(tracks[i], configs[i], t, i \in present)
             rest == scan_triggers_through([tracks EXCEPT ![i] = res.track], configs, t,
                                           present, i + 1)
         IN  IF res.abort /\ rest.delayed_trigger = NoAbort
             THEN [tracks |-> rest.tracks, delayed_trigger |-> i]
             ELSE rest

\* __logic, "loop sleep triggers" from trigger i on: the tracking entries left
\* and the trigger that made __logic return True (NoAbort: it returns False)
RECURSIVE scan_triggers(_, _, _, _, _)
scan_triggers(tracks, configs, t, present, i) ==
    IF i > Len(configs)
    THEN [tracks |-> tracks, delayed_trigger |-> NoAbort]
    ELSE LET res == Uploader_logic(tracks[i], configs[i], t, i \in present)
         IN  IF res.abort
             THEN [tracks |-> [tracks EXCEPT ![i] = res.track], delayed_trigger |-> i]
             ELSE scan_triggers([tracks EXCEPT ![i] = res.track], configs, t, present, i + 1)

\* In this specification drv is the Uploader of the invocation with all its
\* triggers, and obs records the last line: the triggers whose phrase it held
\* and the tracking entries before it.
InitScan ==
    /\ now = 0
    /\ sa_quota_usage = EmptyDict
    /\ sa_delay = [s \in SAs |-> None]
    /\ uploader_delay = None
    /\ sa_enabled = FALSE
    /\ cache_has_files = FALSE
    /\ upload_lock = NoHolder
    /\ pc = [p \in Proc |-> "idle"]
    /\ rpc = "driving"
    /\ run = RunIdle
    /\ \E counts \in [1..NumTriggers -> ScanCounts], timeout \in TriggerTimeouts :
          drv = [rclone_sleeps |-> [i \in 1..NumTriggers |->
                                       [count |-> counts[i], timeout |-> timeout,
                                        sleep |-> ScanSleep(i)]],
                 trigger_tracks |-> [i \in 1..NumTriggers |-> NoTrack],
                 delayed_check |-> 0, delayed_trigger |-> NoAbort, aborted |-> FALSE]
    /\ obs = [lines |-> 0, present |-> {}, before |-> [i \in 1..NumTriggers |-> NoTrack],
              at |-> 0]
    /\ last_tick = TickNone
    /\ last_quota_op = QuotaOpNone

\* the driver prints a line holding the phrases of the triggers in present
scan_line(present) ==
    LET res == scan_triggers(drv.trigger_tracks, drv.rclone_sleeps, now, present, 1)
    IN  /\ ~drv.aborted
        /\ obs.lines < MaxHits
        /\ drv' = [drv EXCEPT
                     !.trigger_tracks = res.tracks,
                     !.aborted = res.delayed_trigger # NoAbort,
                     !.delayed_trigger = res.delayed_trigger,
                     !.delayed_check = IF res.delayed_trigger # NoAbort
                                       THEN drv.rclone_sleeps[res.delayed_trigger].sleep
                                       ELSE drv.delayed_check]
        /\ obs' = [lines |-> obs.lines + 1, present |-> present,
                   before |-> drv.trigger_tracks, at |-> now]
        /\ UNCHANGED now
        /\ TriggerFrame

\* a second passes while the driver runs
scan_second_passes ==
    /\ ~drv.aborted
    /\ now < MaxSeconds
    /\ now' = now + 1
    /\ UNCHANGED <<drv, obs>>
    /\ TriggerFrame

NextScan ==
    \/ \E present \in SUBSET (1..NumTriggers) : scan_line(present)
    \/ scan_second_passes

SpecScan == InitScan /\ [][NextScan]_vars

\* the triggers the last line took to their count: the phrase was on the line,
\* the window was open, and one more occurrence reaches the count
ReachedOnLastLine ==
    {i \in obs.present :
        /\ obs.before[i].count >= 1
        /\ obs.at < obs.before[i].expires
        /\ obs.before[i].count + 1 >= drv.rclone_sleeps[i].count}

\* C21: when a line takes several triggers to their count, __logic reports the
\* phrase and the sleep hours of the first of them in configuration order, and
\* the tracking entries of the triggers after it are as they were before the line.
C21_FirstTriggerWins ==
    /\ drv.aborted <=> (obs.lines > 0 /\ ReachedOnLastLine # {})
    /\ drv.aborted =>
          LET first == SetMin(ReachedOnLastLine)
          IN  /\ drv.delayed_trigger = first
              /\ drv.delayed_check = drv.rclone_sleeps[first].sleep
              /\ \A j \in 1..NumTriggers :
                    j > first => drv.trigger_tracks[j] = obs.before[j]

\* a line has taken both triggers to their count and the first one is reported
C21_Witness ==
    /\ drv.aborted
    /\ Cardinality(ReachedOnLastLine) >= 2
    /\ drv.delayed_trigger = 1
    /\ drv.delayed_check = ScanSleep(1)
    /\ drv.trigger_tracks[2] = obs.before[2]

\* ===========================================================================
\* The transferred-files cache of one uploader on its own: driver invocations
\* on weekdays and weekends, the write-backs of the cache, the file list of a
\* chunked upload, and restarts with a changed configuration.
\* ===========================================================================

NumPaths == 2

\* the paths the driver can report as copied
Paths == 1..NumPaths

\* _get_current_config(): the configurations the uploader can have
Fingerprints == {1, 2}

\* transfer_cache without the key of the uploader
NoCache == [present |-> FALSE, config |-> 0, files |-> {}]

\* _load_cached_files(): the cached paths, none when the stored configuration
\* is not the current one
load_cached_files(cache, config) ==
    IF ~cache.present \/ cache.config # config THEN {} ELSE cache.files

\* the weekend write-back that always starts a fresh set
update_cache_full_fresh(cache, config, transferred_files) ==
    [present |-> TRUE, config |-> config, files |-> transferred_files]

\* _update_cache_full(transferred_files): the cache entry it leaves
update_cache_full(cache, config, transferred_files) ==
    IF ~cache.present \/ cache.config # config
    THEN [present |-> TRUE, config |-> config, files |-> transferred_files]
    ELSE [present |-> TRUE, config |-> config, files |-> cache.files \cup transferred_files]

\* _update_cache_incremental(transferred_files): the cache entry it leaves
update_cache_incremental(cache, config, transferred_files) ==
    IF ~cache.present
    THEN [present |-> TRUE, config |-> config, files |-> transferred_files]
    ELSE IF cache.config # config
    THEN cache
    ELSE [cache EXCEPT !.files = cache.files \cup transferred_files]

\* "if self.is_weekend: _update_cache_full else: _update_cache_incremental"
update_cache(cache, config, is_weekend, transferred_files) ==
    IF is_weekend
    THEN update_cache_full(cache, config, transferred_files)
    ELSE update_cache_incremental(cache, config, transferred_files)

\* do_upload, file list of a chunked upload: the cached paths added to
\* excludes_for_chunking
chunk_cached_files(cache, is_weekend) ==
    IF ~is_weekend /\ cache.present THEN cache.files ELSE {}

\* In this specification run holds what the process keeps between driver
\* invocations: the cache entry of the uploader, the current configuration, and
\* the cached paths found in rclone_config['rclone_excludes'] (the list of the
\* loaded configuration; rclone_config.copy() is shallow, so the list the
\* Uploader appends to is that list).  drv is the invocation, obs the file list
\* of the last chunked upload and the merges seen.
CacheIdle ==
    [running |-> FALSE, is_weekend |-> FALSE, transferred_files |-> {}, excludes |-> {},
     cache_at_start |-> NoCache]

InitCache ==
    /\ now = 0
    /\ sa_quota_usage = EmptyDict
    /\ sa_delay = [s \in SAs |-> None]
    /\ uploader_delay = None
    /\ sa_enabled = FALSE
    /\ cache_has_files = FALSE
    /\ upload_lock = NoHolder
    /\ pc = [p \in Proc |-> "idle"]
    /\ rpc = "none"
    /\ run = [transfer_cache |-> NoCache, config |-> 1, rclone_excludes |-> {}]
    /\ drv = CacheIdle
    /\ obs = [chunk_listed |-> FALSE, chunk_weekend |-> FALSE, chunk_excludes |-> {},
              chunk_cache |-> NoCache, full_merge |-> FALSE, incremental_merge |-> FALSE]
    /\ last_tick = TickNone
    /\ last_quota_op = QuotaOpNone

CacheFrame ==
    UNCHANGED <<now, sa_quota_usage, sa_delay, uploader_delay, sa_enabled, cache_has_files,
                upload_lock, pc, rpc, last_tick, last_quota_op>>

\* a write-back that merges into a cache of the current configuration
MergeSeen(is_weekend, written) ==
    [obs EXCEPT
       !.full_merge = obs.full_merge \/
            (written /\ is_weekend /\ load_cached_files(run.transfer_cache, run.config) # {}),
       !.incremental_merge = obs.incremental_merge \/
            (written /\ ~is_weekend /\ load_cached_files(run.transfer_cache, run.config) # {})]

\* Uploader.upload up to the start of the driver: on a weekday the cached paths
\* are appended to rclone_config['rclone_excludes']
cache_upload_starts(is_weekend) ==
    LET cached_files == IF ~is_weekend
                        THEN load_cached_files(run.transfer_cache, run.config) ELSE {}
    IN  /\ ~drv.running
        /\ run' = [run EXCEPT !.rclone_excludes = run.rclone_excludes \cup cached_files]
        /\ drv' = [running |-> TRUE, is_weekend |-> is_weekend, transferred_files |-> {},
                   excludes |-> run.rclone_excludes \cup cached_files,
                   cache_at_start |-> run.transfer_cache]
        /\ UNCHANGED obs
        /\ CacheFrame

\* __logic on a ": Copied (" line; periodic: the number of captured files has
\* reached a multiple of 50, and the cache is written back
cache_file_copied(path, periodic) ==
    LET files == drv.transferred_files \cup {path}
    IN  /\ drv.running
        /\ drv' = [drv EXCEPT !.transferred_files = files]
        /\ run' = IF periodic
                  THEN [run EXCEPT !.transfer_cache =
                           update_cache(run.transfer_cache, run.config, drv.is_weekend, files)]
                  ELSE run
        /\ obs' = MergeSeen(drv.is_weekend, periodic)
        /\ CacheFrame

\* the driver has ended: "Update cache after successful transfer"
cache_upload_ends(success) ==
    LET written == success /\ drv.transferred_files # {}
    IN  /\ drv.running
        /\ run' = IF written
                  THEN [run EXCEPT !.transfer_cache =
                           update_cache(run.transfer_cache, run.config, drv.is_weekend,
                                        drv.transferred_files)]
                  ELSE run
        /\ drv' = [drv EXCEPT !.running = FALSE]
        /\ obs' = MergeSeen(drv.is_weekend, written)
        /\ CacheFrame

\* do_upload with chunked upload enabled: the excludes of the file list
chunk_file_list(is_weekend) ==
    /\ ~drv.running
    /\ obs' = [obs EXCEPT !.chunk_listed = TRUE, !.chunk_weekend = is_weekend,
                          !.chunk_excludes = run.rclone_excludes \cup
                                chunk_cached_files(run.transfer_cache, is_weekend),
                          !.chunk_cache = run.transfer_cache]
    /\ UNCHANGED <<run, drv>>
    /\ CacheFrame

\* the program is started again with another upload_remote or upload_folder:
\* the configuration, its excludes included, is loaded anew; the cache persists
config_changes(config) ==
    /\ ~drv.running
    /\ config # run.config
    /\ run' = [run EXCEPT !.config = config, !.rclone_excludes = {}]
    /\ obs' = [obs EXCEPT !.chunk_listed = FALSE, !.chunk_excludes = {},
                          !.chunk_cache = NoCache]
    /\ UNCHANGED drv
    /\ CacheFrame

NextCache ==
    \/ \E is_weekend \in BOOLEAN : cache_upload_starts(is_weekend)
    \/ \E path \in Paths, periodic \in BOOLEAN : cache_file_copied(path, periodic)
    \/ \E success \in BOOLEAN : cache_upload_ends(success)
    \/ \E is_weekend \in BOOLEAN : chunk_file_list(is_weekend)
    \/ \E config \in Fingerprints : config_changes(config)

SpecCache == InitCache /\ [][NextCache]_vars

\* the stored configuration of a cache entry is not the current one
Mismatch(cache) == cache.present /\ cache.config # run.config

\* C23: while the cache entry is of the current configuration, every path in it
\* stays in it across every write-back; paths leave the cache only when a
\* weekend write-back replaces an entry of another configuration.
C23_CacheMonotonic ==
    [][ /\ (run.transfer_cache.present /\ run.transfer_cache.config = run.config) =>
              /\ run'.transfer_cache.present
              /\ run.transfer_cache.files \subseteq run'.transfer_cache.files
        /\ ~(run.transfer_cache.files \subseteq run'.transfer_cache.files) =>
              /\ drv.running
              /\ drv.is_weekend
              /\ Mismatch(run.transfer_cache)
              /\ run'.transfer_cache.config = run.config ]_vars

\* weekday and weekend write-backs have merged into the cache, which holds
\* every path
C23_Witness ==
    /\ obs.full_merge
    /\ obs.incremental_merge
    /\ run.transfer_cache.config = run.config
    /\ run.transfer_cache.files = Paths

\* C24: the excludes handed to the driver on a weekend hold no cached path, and
\* on a weekday with a cache of the current configuration they hold every
\* cached path.
C24_WeekendNoCacheExcludes ==
    drv.running =>
        /\ drv.is_weekend => drv.excludes = {}
        /\ (~drv.is_weekend /\ drv.cache_at_start.present
              /\ drv.cache_at_start.config = run.config) =>
                 drv.cache_at_start.files \subseteq drv.excludes

\* C25: with a cache entry of another configuration, no cached path is an exclude
\* of a driver invocation or of the file list of a chunked upload, a weekday
\* write-back leaves the entry as it is, and a weekend write-back replaces it
\* by the paths of this invocation under the current configuration.
C25_MismatchIgnoresCache ==
    [][ Mismatch(run.transfer_cache) =>
          /\ (~drv.running /\ drv'.running) => drv'.excludes = {}
          /\ (~drv.running /\ obs'.chunk_listed /\ obs' # obs) => obs'.chunk_excludes = {}
          /\ (drv.running /\ ~drv.is_weekend) => run'.transfer_cache = run.transfer_cache
          /\ (drv.running /\ drv.is_weekend /\ run'.transfer_cache # run.transfer_cache) =>
                run'.transfer_cache =
                    [present |-> TRUE, config |-> run.config,
                     files |-> drv'.transferred_files] ]_vars

\* ===========================================================================
\* The scheduled disk check on its own: scheduled_uploader for one uploader,
\* with the folder size and the schedule window as inputs, the hidden-files
\* cleanup and the orchestrator as the calls it makes.
\* ===========================================================================

\* the largest folder size path.get_size reports, in whole GB
MaxUsedSpace == 3
\* the last hour of the scheduled checks
MaxSchedTime == 3
\* uploader_settings['max_size_gb']
max_size_gb == 2
\* the hours an uploader ban set by do_upload lasts here
SchedBanHours == 2

\* the test of the folder size with "above", not "at or above", the limit
size_and_window_above(used_space, schedule_enabled, in_window) ==
    /\ used_space > max_size_gb
    /\ schedule_enabled => in_window

\* scheduled_uploader: the folder is at or above the limit and, with a schedule,
\* misc.is_time_between holds
size_and_window(used_space, schedule_enabled, in_window) ==
    /\ used_space >= max_size_gb
    /\ schedule_enabled => in_window

SchedTickNone ==
    [result |-> "none", used_space |-> 0, schedule_enabled |-> FALSE, in_window |-> FALSE]

SchedObsIdle == [hidden_done |-> FALSE, upload_called |-> FALSE]

InitSched ==
    /\ now = 0
    /\ uploader_delay \in {None, 1, 2}
    /\ sa_enabled = TRUE
    /\ sa_delay \in [SAs -> {None, 1}]
    /\ sa_quota_usage = EmptyDict
    /\ cache_has_files = FALSE
    /\ upload_lock = NoHolder
    /\ pc = [p \in Proc |-> "idle"]
    /\ rpc = "none"
    /\ run = RunIdle
    /\ drv = DrvIdle
    /\ obs = SchedObsIdle
    /\ last_tick = SchedTickNone
    /\ last_quota_op = QuotaOpNone

SchedFrame ==
    UNCHANGED <<sa_quota_usage, sa_enabled, cache_has_files, upload_lock, pc, run, drv,
                last_quota_op>>

\* scheduled_uploader up to its call of do_hidden, or to its return
sched_check(used_space, schedule_enabled, in_window) ==
    LET c == check_suspended_uploaders(uploader_delay, now)
        tick_of(result) ==
            [result |-> result, used_space |-> used_space,
             schedule_enabled |-> schedule_enabled, in_window |-> in_window]
    IN  /\ rpc = "none"
        /\ uploader_delay' = c.udelay
        /\ obs' = SchedObsIdle
        /\ IF c.suspended
           THEN /\ last_tick' = [SchedTickNone EXCEPT !.result = "suspended"]
                /\ UNCHANGED <<sa_delay, rpc>>
           ELSE /\ sa_delay' = check_suspended_sa(sa_delay, now)
                /\ IF size_and_window(used_space, schedule_enabled, in_window)
                   THEN /\ last_tick' = tick_of("upload")
                        /\ rpc' = "do_hidden"
                   ELSE /\ last_tick' = tick_of(IF used_space >= max_size_gb
                                               THEN "outside" ELSE "below")
                        /\ UNCHANGED rpc
        /\ UNCHANGED now
        /\ SchedFrame

\* do_hidden() returns, with or without an exception logged inside it, and
\* do_upload(uploader_name) is called
sched_hidden_returns ==
    /\ rpc = "do_hidden"
    /\ rpc' = "do_upload"
    /\ obs' = [hidden_done |-> TRUE, upload_called |-> TRUE]
    /\ UNCHANGED <<now, sa_delay, uploader_delay, last_tick>>
    /\ SchedFrame

\* do_upload(uploader_name) returns; it may have banned the uploader
sched_upload_returns(banned) ==
    /\ rpc = "do_upload"
    /\ rpc' = "none"
    /\ uploader_delay' = IF banned THEN now + SchedBanHours ELSE uploader_delay
    /\ UNCHANGED <<now, sa_delay, obs, last_tick>>
    /\ SchedFrame

\* the time until the next scheduled check
sched_wait ==
    /\ rpc = "none"
    /\ now < MaxSchedTime
    /\ now' = now + 1
    /\ UNCHANGED <<sa_delay, uploader_delay, rpc, obs, last_tick>>
    /\ SchedFrame

NextSched ==
    \/ \E used_space \in 0..MaxUsedSpace, schedule_enabled \in BOOLEAN, in_window \in BOOLEAN :
          sched_check(used_space, schedule_enabled, in_window)
    \/ sched_hidden_returns
    \/ \E banned \in BOOLEAN : sched_upload_returns(banned)
    \/ sched_wait

SpecSched == InitSched /\ [][NextSched]_vars

\* the uploader is suspended: the current time is before the end of its ban
UploaderSuspended == uploader_delay # None /\ now < uploader_delay

\* C26: a scheduled check calls the orchestrator only when the uploader is not
\* suspended, the folder size is at least max_size_gb and, with a schedule, the
\* time is inside the window; a check at exactly max_size_gb that meets the other
\* two conditions does call it; and the orchestrator is called only after the
\* hidden-files cleanup has returned.
C26_ScheduledCheckGates ==
    [][ /\ (rpc = "none" /\ rpc' = "do_hidden") =>
              /\ ~UploaderSuspended
              /\ last_tick'.used_space >= max_size_gb
              /\ last_tick'.schedule_enabled => last_tick'.in_window
        /\ ( /\ rpc = "none"
             /\ last_tick'.result # "none"
             /\ last_tick' # last_tick \/ obs' # obs \/ rpc' # rpc
             /\ ~UploaderSuspended
             /\ last_tick'.result # "suspended"
             /\ last_tick'.used_space = max_size_gb
             /\ last_tick'.schedule_enabled => last_tick'.in_window )
           => rpc' = "do_hidden"
        /\ rpc' = "do_upload" => (rpc \in {"do_hidden", "do_upload"} /\ obs'.hidden_done)
        /\ obs'.upload_called => obs'.hidden_done ]_vars

\* the orchestrator has been called for a folder of exactly max_size_gb, outside
\* of any ban and inside the enabled schedule window, after the cleanup
C26_Witness ==
    /\ rpc = "do_upload"
    /\ obs.upload_called
    /\ obs.hidden_done
    /\ last_tick.used_space = max_size_gb
    /\ last_tick.schedule_enabled
    /\ last_tick.in_window
    /\ uploader_delay = None
    /\ now > 0

\* ===========================================================================
\* The throttle monitor on its own: the polling loop of do_plex_monitor, with
\* the stream count of the media server and the answers of the RC endpoint as
\* inputs.
\* ===========================================================================

\* the number of polls of one monitor
MaxPolls == 6
\* the largest stream count the media server reports
MaxStreams == 3
\* the number of polls of one monitor that the media server or the RC endpoint
\* fails
MaxFaults == 1
\* conf.configs['plex']['max_streams_before_throttle']
max_streams_before_throttle == 1
\* conf.configs['plex']['rclone']['throttle_speeds'], by stream count
throttle_speeds == <<"10M", "5M", "1M">>
\* throttle_speed = None
NoSpeed == "None"

\* misc.get_nearest_less_element(throttle_speeds, stream_count): the speed of
\* the largest index that is at most the stream count
get_nearest_less_element(speeds, stream_count) ==
    speeds[CHOOSE i \in 1..Len(speeds) :
              /\ i <= stream_count
              /\ \A j \in 1..Len(speeds) : j <= stream_count => j <= i]

\* the RC calls of the monitor
ThrottleCall(speed) == [cmd |-> "throttle", speed |-> speed]

NoThrottleCall == [cmd |-> "no_throttle", speed |-> NoSpeed]

\* one pass of the polling loop that re-issues the throttle although the target
\* is the current speed
monitor_pass_reissuing(m, stream_count, throttle_active, rc_ok) ==
    IF stream_count >= max_streams_before_throttle
    THEN LET speed == get_nearest_less_element(throttle_speeds, stream_count)
         IN  [throttled |-> rc_ok, throttle_speed |-> speed,
              calls |-> <<ThrottleCall(speed)>>]
    ELSE IF m.throttled
         THEN [throttled |-> ~rc_ok, throttle_speed |-> NoSpeed,
               calls |-> <<NoThrottleCall>>]
         ELSE [throttled |-> m.throttled, throttle_speed |-> m.throttle_speed,
               calls |-> <<>>]

\* one pass of the polling loop of do_plex_monitor with a stream count:
\* m holds throttled and throttle_speed; throttle_active is the answer of
\* rclone.throttle_active(throttle_speed), asked only when throttled; rc_ok is
\* the answer of the rclone.throttle or rclone.no_throttle call that is made
monitor_pass(m, stream_count, throttle_active, rc_ok) ==
    IF /\ ~m.throttled \/ (m.throttled /\ ~throttle_active)
       /\ stream_count >= max_streams_before_throttle
    THEN LET speed == get_nearest_less_element(throttle_speeds, stream_count)
         IN  [throttled |-> rc_ok, throttle_speed |-> speed,
              calls |-> <<ThrottleCall(speed)>>]
    ELSE IF m.throttled
         THEN IF stream_count < max_streams_before_throttle
              THEN [throttled |-> ~rc_ok, throttle_speed |-> NoSpeed,
                    calls |-> <<NoThrottleCall>>]
              ELSE IF get_nearest_less_element(throttle_speeds, stream_count)
                         # m.throttle_speed
                   THEN LET speed == get_nearest_less_element(throttle_speeds,
                                                              stream_count)
                        IN  [throttled |-> rc_ok, throttle_speed |-> speed,
                             calls |-> <<ThrottleCall(speed)>>]
                   ELSE [throttled |-> m.throttled, throttle_speed |-> m.throttle_speed,
                         calls |-> <<>>]
         ELSE [throttled |-> m.throttled, throttle_speed |-> m.throttle_speed,
               calls |-> <<>>]

\* the monitor after its validations: throttled = False, throttle_speed = None
MonitorStart == [throttled |-> FALSE, throttle_speed |-> NoSpeed]

\* the stream counts of the scenario
ScenarioCounts == <<0, 1, 2, 3, 1, 0>>

\* the polls of the monitor are no longer the first polls of the scenario
OffScenario == <<None>>

\* the stream counts polled so far, kept while they are the first counts of the
\* scenario
ScenarioSoFar(counts, stream_count) ==
    LET c == Append(counts, stream_count)
    IN  IF Len(c) <= Len(ScenarioCounts) /\ c = SubSeq(ScenarioCounts, 1, Len(c))
        THEN c ELSE OffScenario

\* what the monitor has done: counts and calls are the polls and the RC calls
\* of the scenario so far, last_count, last_calls and last_active are those of
\* the last poll
ThrottleObsIdle ==
    [counts |-> <<>>, calls |-> <<>>, polls |-> 0, faults |-> 0, last_count |-> None,
     last_calls |-> <<>>, last_active |-> TRUE]

InitThrottle ==
    /\ now = 0
    /\ sa_quota_usage = EmptyDict
    /\ sa_delay = [s \in SAs |-> None]
    /\ uploader_delay = None
    /\ sa_enabled = FALSE
    /\ cache_has_files = FALSE
    /\ upload_lock = "sched"
    /\ pc = [p \in Proc |-> IF p = "sched" THEN "body" ELSE "idle"]
    /\ rpc = "driving"
    /\ run = RunIdle
    /\ drv = MonitorStart
    /\ obs = ThrottleObsIdle
    /\ last_tick = TickNone
    /\ last_quota_op = QuotaOpNone

ThrottleFrame ==
    UNCHANGED <<now, sa_quota_usage, sa_delay, uploader_delay, sa_enabled, cache_has_files,
                pc, run, last_tick, last_quota_op>>

\* a poll that gets the streams of the media server
monitor_poll(stream_count, throttle_active, rc_ok) ==
    LET r == monitor_pass(drv, stream_count, throttle_active, rc_ok)
        fault == (drv.throttled /\ ~throttle_active) \/ (r.calls # <<>> /\ ~rc_ok)
    IN  /\ upload_lock # NoHolder
        /\ obs.polls < MaxPolls
        \* an answer that is not asked for is not an input
        /\ ~drv.throttled => throttle_active
        /\ r.calls = <<>> => rc_ok
        /\ fault => obs.faults < MaxFaults
        /\ drv' = [throttled |-> r.throttled, throttle_speed |-> r.throttle_speed]
        /\ obs' = [counts |-> ScenarioSoFar(obs.counts, stream_count),
                   calls |-> IF ScenarioSoFar(obs.counts, stream_count) = OffScenario
                             THEN <<>> ELSE obs.calls \o r.calls,
                   polls |-> obs.polls + 1,
                   faults |-> obs.faults + (IF fault THEN 1 ELSE 0),
                   last_count |-> stream_count,
                   last_calls |-> r.calls,
                   last_active |-> throttle_active]
        /\ UNCHANGED <<upload_lock, rpc>>
        /\ ThrottleFrame

\* a poll for which plex.get_streams() returns None
monitor_poll_fails ==
    /\ upload_lock # NoHolder
    /\ obs.polls < MaxPolls
    /\ obs.faults < MaxFaults
    /\ obs' = [obs EXCEPT !.counts = OffScenario, !.calls = <<>>,
                          !.polls = obs.polls + 1, !.faults = obs.faults + 1,
                          !.last_count = None, !.last_calls = <<>>,
                          !.last_active = TRUE]
    /\ UNCHANGED <<drv, upload_lock, rpc>>
    /\ ThrottleFrame

\* the upload ends and releases the lock: the loop of the monitor is over
monitor_lock_released ==
    /\ upload_lock # NoHolder
    /\ upload_lock' = NoHolder
    /\ rpc' = "none"
    /\ UNCHANGED <<drv, obs>>
    /\ UNCHANGED <<now, sa_quota_usage, sa_delay, uploader_delay, sa_enabled,
                   cache_has_files, run, last_tick, last_quota_op>>
    /\ pc' = [p \in Proc |-> "idle"]

NextThrottle ==
    \/ \E stream_count \in 0..MaxStreams, throttle_active \in BOOLEAN, rc_ok \in BOOLEAN :
          monitor_poll(stream_count, throttle_active, rc_ok)
    \/ monitor_poll_fails
    \/ monitor_lock_released

SpecThrottle == InitThrottle /\ [][NextThrottle]_vars

\* the RC calls of the scenario
ScenarioCalls ==
    <<ThrottleCall("10M"), ThrottleCall("5M"), ThrottleCall("1M"), ThrottleCall("10M"),
      NoThrottleCall>>

\* the step is a poll that got the stream count n
PolledCount(n) == obs'.polls = obs.polls + 1 /\ obs'.last_count = n

\* the target speed of a stream count at or above the threshold
Target(n) == get_nearest_less_element(throttle_speeds, n)

\* C28: the stream counts 0, 1, 2, 3, 1, 0 make the monitor issue throttle(10M),
\* throttle(5M), throttle(1M), throttle(10M), no_throttle; a poll issues
\* throttle(target) when the count is at or above the threshold and the monitor
\* is un-throttled or the target differs from the current speed, issues
\* no_throttle and clears the state when throttled and the count is below the
\* threshold, and issues nothing when throttled at the unchanged target.
C28_ThrottleCalls ==
    [][ /\ obs'.counts = ScenarioCounts => obs'.calls = ScenarioCalls
        /\ \A n \in 0..MaxStreams : PolledCount(n) =>
              /\ ( /\ n >= max_streams_before_throttle
                   /\ ~drv.throttled \/ Target(n) # drv.throttle_speed )
                 => obs'.last_calls = <<ThrottleCall(Target(n))>>
              /\ (drv.throttled /\ n < max_streams_before_throttle)
                 => /\ obs'.last_calls = <<NoThrottleCall>>
                    /\ drv' = MonitorStart
              /\ ( /\ drv.throttled
                   /\ n >= max_streams_before_throttle
                   /\ Target(n) = drv.throttle_speed )
                 => obs'.last_calls = <<>> ]_vars

\* C28, amended: the scenario yields those calls when every poll gets the
\* streams and every RC call succeeds; a throttled monitor at the unchanged
\* target issues nothing when the RC endpoint reports the throttle active and
\* re-issues throttle(target) when it does not; and no_throttle leaves the
\* monitor un-throttled when the call succeeds, throttled without a speed when
\* it fails.
C28_ThrottleCallsWithAnswers ==
    [][ /\ (obs'.counts = ScenarioCounts /\ obs'.faults = 0) => obs'.calls = ScenarioCalls
        /\ \A n \in 0..MaxStreams : PolledCount(n) =>
              /\ ( /\ n >= max_streams_before_throttle
                   /\ ~drv.throttled \/ Target(n) # drv.throttle_speed )
                 => obs'.last_calls = <<ThrottleCall(Target(n))>>
              /\ (drv.throttled /\ n < max_streams_before_throttle)
                 => /\ obs'.last_calls = <<NoThrottleCall>>
                    /\ drv'.throttle_speed = NoSpeed
                    /\ obs'.faults = obs.faults => ~drv'.throttled
              /\ ( /\ drv.throttled
                   /\ n >= max_streams_before_throttle
                   /\ Target(n) = drv.throttle_speed )
                 => obs'.last_calls = IF obs'.last_active THEN <<>>
                                      ELSE <<ThrottleCall(Target(n))>> ]_vars

\* the scenario has been polled without a failure and has ended un-throttled
C28_Witness ==
    /\ obs.counts = ScenarioCounts
    /\ obs.faults = 0
    /\ obs.calls = ScenarioCalls
    /\ drv = MonitorStart

\* ===========================================================================
\* The upload orchestrator: do_upload for one uploader, called by the scheduler
\* (scheduled_uploader) and directly (the "upload" command), with the driver
\* (Uploader.upload running rclone) as its environment.  The two callers see
\* the same persisted bans and ledger.
\* ===========================================================================

\* What the persisted caches hold when the program starts.  The identities are
\* used in ascending order: the first ones are as the last runs left them, all
\* in the same way, and the others have never been used: "banned" (a ban that
\* ends at 5, 8, ...), or a ledger entry that leaves 15, 14, 11, 10, 5, 1 GiB or
\* nothing.
Histories == {"banned", "left15", "left14", "left11", "left10", "left5", "left1", "left0"}

StartBan(history, s) == IF history = "banned" THEN 5 + 3 * (s - 1) ELSE None

StartBytes(history) ==
    IF history = "left15" THEN SA_DAILY_QUOTA - 15
    ELSE IF history = "left14" THEN SA_DAILY_QUOTA - 14
    ELSE IF history = "left10" THEN SA_DAILY_QUOTA - 10
    ELSE IF history = "left1" THEN SA_DAILY_QUOTA - 1
    ELSE IF history = "left11" THEN SA_DAILY_QUOTA - 11
    ELSE IF history = "left5" THEN SA_DAILY_QUOTA - 5
    ELSE SA_DAILY_QUOTA

\* the reset time of the ledger entries found at the start
StartReset == 20

Init ==
    /\ now = 0
    /\ sa_enabled \in BOOLEAN
    /\ \E history \in Histories, last_used \in 0..NumSA :
        LET used == 1..last_used
        IN
          /\ ~sa_enabled => used = {}
          /\ used = {} => history = "banned"
          /\ sa_delay = [s \in SAs |-> IF s \in used THEN StartBan(history, s) ELSE None]
          /\ sa_quota_usage =
                [s \in (IF history = "banned" THEN {} ELSE used) |->
                    [bytes |-> StartBytes(history), reset_time |-> StartReset,
                     first_upload |-> StartReset - SA_QUOTA_RESET_HOURS]]
    /\ uploader_delay = None
    /\ cache_has_files = FALSE
    /\ upload_lock = NoHolder
    /\ pc = [p \in Proc |-> "idle"]
    /\ rpc = "none"
    /\ run = RunIdle
    /\ drv = DrvIdle
    /\ obs = ObsIdle
    /\ last_tick = TickNone
    /\ last_quota_op = QuotaOpNone

\* ------------------------------------------------------------ the callers

\* do_upload before "with lock_file:": a caller that finds the lock held logs
\* "Waiting for running upload to finish before proceeding..." and blocks
lock_observed(holder) == IF holder # NoHolder THEN "blocked" ELSE "waiting"

\* scheduled_uploader(uploader_name, uploader_settings), up to its call of
\* do_upload.  over_limit: used_space >= max_size_gb; in_window: the schedule
\* is disabled or misc.is_time_between holds.
scheduled_uploader(over_limit, in_window) ==
    LET c == check_suspended_uploaders(uploader_delay, now)
    IN  /\ pc["sched"] = "idle"
        /\ uploader_delay' = c.udelay
        /\ IF c.suspended
           THEN /\ last_tick' = [result |-> "suspended", measured |-> FALSE]
                /\ UNCHANGED <<sa_delay, pc>>
           ELSE /\ sa_delay' = IF sa_enabled THEN check_suspended_sa(sa_delay, now)
                               ELSE sa_delay
                /\ last_tick' = [result |-> "checked", measured |-> TRUE]
                /\ pc' = IF over_limit /\ in_window
                         THEN [pc EXCEPT !["sched"] = lock_observed(upload_lock)] ELSE pc
        /\ UNCHANGED <<now, sa_quota_usage, sa_enabled, cache_has_files, upload_lock, rpc,
                       run, drv, obs, last_quota_op>>

\* the "upload" command: do_upload() called directly
direct_upload ==
    /\ pc["cli"] = "idle"
    /\ pc' = [pc EXCEPT !["cli"] = lock_observed(upload_lock)]
    /\ UNCHANGED <<now, sa_quota_usage, sa_delay, uploader_delay, sa_enabled,
                   cache_has_files, upload_lock, rpc, run, drv, obs, last_tick,
                   last_quota_op>>

\* a lock that can be taken while another caller holds it
lock_free_ignored(holder) == TRUE

\* lock.upload(): the lock can be taken when nobody holds it
lock_free(holder) == holder = NoHolder

\* do_upload: "with lock_file:" lets the caller into the body
lock_acquire(p) ==
    /\ pc[p] \in {"waiting", "blocked"}
    /\ lock_free(upload_lock)
    /\ upload_lock' = p
    /\ pc' = [pc EXCEPT ![p] = "body"]
    /\ rpc' = "start"
    /\ run' = RunIdle
    /\ obs' = ObsIdle
    /\ drv' = DrvIdle
    /\ UNCHANGED <<now, sa_quota_usage, sa_delay, uploader_delay, sa_enabled,
                   cache_has_files, last_tick, last_quota_op>>

\* Uploader.upload up to the start of the driver
DrvStart(sa_file, params) ==
    [sa |-> sa_file, files |-> 0, bytes |-> 0,
     start_bytes |-> LedgerBytes(sa_quota_usage, sa_file),
     cached |-> ~IsWeekend(now) /\ cache_has_files, params |-> params]

\* -------------------------------------------------------- the body of do_upload

\* the for loop over available_accounts moves on ("continue"), or is over
NextAccount(r) ==
    IF r.i = Len(r.available_accounts)
    THEN [rpc |-> "finish", run |-> r]
    ELSE [rpc |-> "pick", run |-> [r EXCEPT !.i = r.i + 1]]

\* do_upload from the start of the body to the identity loop, or to the single
\* driver run of an uploader without identities
run_start ==
    /\ rpc = "start"
    /\ IF ~sa_enabled
       THEN /\ rpc' = "driving"
            /\ drv' = DrvStart(None, NoParams)
            /\ obs' = [obs EXCEPT !.launches = 1]
            /\ run' = [run EXCEPT !.nzbget_paused = TRUE]
            /\ UNCHANGED <<sa_quota_usage, sa_delay, uploader_delay>>
       ELSE LET d == check_suspended_sa(sa_delay, now)
                avail == available_accounts(d)
            IN  IF avail = <<>>
                THEN /\ sa_delay' = d
                     /\ uploader_delay' = get_lowest_remaining_time(d)
                     /\ rpc' = "finish"
                     /\ run' = [run EXCEPT !.nzbget_paused = TRUE]
                     /\ UNCHANGED <<sa_quota_usage, drv, obs>>
                ELSE LET c == cleanup_expired_quotas(sa_quota_usage, d, now)
                     IN  /\ sa_quota_usage' = c.usage
                         /\ sa_delay' = c.delay
                         /\ run' = [RunIdle EXCEPT !.available_accounts = avail, !.i = 1,
                                                  !.nzbget_paused = TRUE]
                         /\ rpc' = "pick"
                         /\ UNCHANGED <<uploader_delay, drv, obs>>
    /\ UNCHANGED <<now, sa_enabled, cache_has_files, upload_lock, pc, last_tick,
                   last_quota_op>>

\* one pass of "for i in range(0, available_accounts_size)" up to the stage loop
pick_identity ==
    LET sa == run.available_accounts[run.i]
        r  == get_sa_remaining_quota(sa_quota_usage, sa, now)
    IN  /\ rpc = "pick"
        /\ sa_quota_usage' = r.usage
        /\ IF r.ret < SkipBelowGiB
           THEN /\ sa_delay' = IF sa \in DOMAIN r.usage
                               THEN [sa_delay EXCEPT ![sa] = r.usage[sa].reset_time]
                               ELSE sa_delay
                /\ rpc' = NextAccount(run).rpc
                /\ run' = NextAccount(run).run
           ELSE /\ run' = [run EXCEPT !.sa_file = sa, !.sa_quota_remaining = r.ret,
                                      !.stage_number = 1, !.resp_delay = 0,
                                      !.resp_success = FALSE]
                /\ rpc' = "stage"
                /\ UNCHANGED sa_delay
        /\ UNCHANGED <<now, uploader_delay, sa_enabled, cache_has_files, upload_lock, pc,
                       drv, obs, last_tick, last_quota_op>>

\* the stage loop going on at exactly 10 GiB as well
stage_loop_condition_inclusive(sa_quota_remaining) == sa_quota_remaining >= StageAboveGiB

\* the condition of "while sa_quota_remaining > 10 * 1024**3"
stage_loop_condition(sa_quota_remaining) == sa_quota_remaining > StageAboveGiB

\* the stage loop goes on: one more stage is started
stage_launch ==
    /\ rpc = "stage"
    /\ stage_loop_condition(run.sa_quota_remaining)
    /\ obs.launches < MaxStages
    /\ drv' = DrvStart(run.sa_file, calculate_stage_params_quota_based(run.sa_quota_remaining))
    /\ obs' = [obs EXCEPT !.launches = obs.launches + 1]
    /\ rpc' = "driving"
    /\ UNCHANGED <<now, sa_quota_usage, sa_delay, uploader_delay, sa_enabled,
                   cache_has_files, upload_lock, pc, run, last_tick, last_quota_op>>

\* the stage loop is left: the rest of the pass of the identity loop
after_stages ==
    LET sa   == run.sa_file
        last == run.i = Len(run.available_accounts)
        banned == [sa_delay EXCEPT ![sa] = now + run.resp_delay]
        swept  == check_suspended_sa(banned, now)
    IN  /\ rpc = "stage"
        /\ ~stage_loop_condition(run.sa_quota_remaining)
        /\ IF ~run.resp_bound
           THEN \* resp is read before any stage has assigned it
                /\ rpc' = "finish"
                /\ obs' = [obs EXCEPT !.raised = TRUE]
                /\ UNCHANGED <<sa_delay, uploader_delay, run>>
           ELSE IF run.resp_cached /\ (run.resp_delay # 0 \/ run.sa_quota_remaining < StageAboveGiB)
           THEN \* "break" under "if resp['cached_files_excluded'] > 0"
                /\ rpc' = "finish"
                /\ UNCHANGED <<sa_delay, uploader_delay, run, obs>>
           ELSE LET r == IF run.resp_cached
                         THEN [run EXCEPT !.stage_number = run.stage_number + 1] ELSE run
                IN  IF run.resp_delay # 0
                    THEN IF ~last
                         THEN /\ sa_delay' = banned
                              /\ rpc' = NextAccount(r).rpc
                              /\ run' = NextAccount(r).run
                              /\ UNCHANGED <<uploader_delay, obs>>
                         ELSE /\ sa_delay' = swept
                              /\ uploader_delay' =
                                    IF get_lowest_remaining_time(swept) # None
                                    THEN get_lowest_remaining_time(swept) ELSE uploader_delay
                              /\ rpc' = "finish"
                              /\ run' = r
                              /\ UNCHANGED obs
                    ELSE /\ sa_delay' = [sa_delay EXCEPT ![sa] = None]
                         /\ rpc' = "finish"
                         /\ run' = r
                         /\ UNCHANGED <<uploader_delay, obs>>
        /\ UNCHANGED <<now, sa_quota_usage, sa_enabled, cache_has_files, upload_lock, pc,
                       drv, last_tick, last_quota_op>>

\* whether the Nzbget queue is paused when do_upload returns: the queue is
\* resumed at the end of the try block, which "except Exception:" skips
resume_queue(nzbget_paused, raised) == nzbget_paused /\ raised

\* the end of do_upload: the queue is resumed and the lock is released
run_finish ==
    /\ rpc = "finish"
    /\ upload_lock \in Proc
    /\ pc' = [pc EXCEPT ![upload_lock] = "idle"]
    /\ upload_lock' = NoHolder
    /\ rpc' = "none"
    /\ run' = [RunIdle EXCEPT !.nzbget_paused = resume_queue(run.nzbget_paused, obs.raised)]
    /\ obs' = ObsIdle
    /\ UNCHANGED <<now, sa_quota_usage, sa_delay, uploader_delay, sa_enabled,
                   cache_has_files, drv, last_tick, last_quota_op>>

\* ----------------------------------------------------------------- the driver

\* Uploader.__logic on a ": Copied (" line: the file is recorded with the size
\* _get_file_size reports, and the stage's quota callback is told
driver_copied(file_size) ==
    /\ rpc = "driving"
    /\ obs.files < MaxFiles
    /\ drv.sa # None => drv.bytes + file_size <= drv.params.max_transfer
    /\ drv' = [drv EXCEPT !.files = drv.files + 1, !.bytes = drv.bytes + file_size]
    /\ sa_quota_usage' = quota_callback(sa_quota_usage, drv.sa, file_size, now)
    /\ obs' = [obs EXCEPT !.files = obs.files + 1]
    /\ UNCHANGED <<now, sa_delay, uploader_delay, sa_enabled, cache_has_files,
                   upload_lock, pc, rpc, run, last_tick, last_quota_op>>

\* The driver has ended and Uploader.upload returns resp.  In the identity loop
\* the stage's response is taken over and the remaining quota is read again;
\* without identities the uploader ban is set or dropped and the run is over.
upload_returns(kind, resp, h) ==
    /\ rpc = "driving"
    /\ cache_has_files' = (cache_has_files \/ (resp.success /\ drv.files > 0))
    /\ obs' = [obs EXCEPT !.last_end = kind, !.last_sa = drv.sa, !.last_h = h,
                          !.last_start = drv.start_bytes, !.last_files = drv.files,
                          !.last_sum = drv.bytes, !.err = (obs.err \/ kind = "error")]
    /\ drv' = DrvIdle
    /\ IF drv.sa # None
       THEN LET r == get_sa_remaining_quota(sa_quota_usage, drv.sa, now)
            IN  /\ sa_quota_usage' = r.usage
                /\ run' = [run EXCEPT !.resp_bound = TRUE,
                                      !.resp_cached = resp.cached_files_excluded,
                                      !.resp_delay = resp.delayed_check,
                                      !.resp_success = resp.success,
                                      !.sa_quota_remaining = r.ret]
                /\ rpc' = "stage"
                /\ UNCHANGED uploader_delay
       ELSE /\ uploader_delay' =
                  IF resp.delayed_check # 0
                  THEN IF uploader_delay = None THEN now + resp.delayed_check
                       ELSE uploader_delay
                  ELSE None
            /\ run' = [run EXCEPT !.resp_bound = TRUE,
                                  !.resp_cached = resp.cached_files_excluded,
                                  !.resp_delay = resp.delayed_check,
                                  !.resp_success = resp.success]
            /\ rpc' = "finish"
            /\ UNCHANGED sa_quota_usage
    /\ UNCHANGED <<now, sa_delay, sa_enabled, upload_lock, pc, last_tick, last_quota_op>>

\* the driver exits with code 0
driver_exit_0 ==
    upload_returns("exit0", upload_response(TRUE, 0, 0, drv.cached), 0)

\* the driver exits with code 7, "max transfer reached"
driver_max_transfer ==
    upload_returns("exit7", upload_response(TRUE, 7, 0, drv.cached), 0)

\* a trigger with 'sleep' h reaches its count: __logic sets delayed_check to h
\* and returns True, the driver is killed and its return code is -9
driver_trigger_abort(h) ==
    upload_returns("abort", upload_response(FALSE, -9, h, drv.cached), h)

\* the driver fails: any other exit code, or 9999 when it could not be run
driver_tool_error(return_code) ==
    upload_returns("error", upload_response(FALSE, return_code, 0, drv.cached), 0)

\* ------------------------------------------------------------------- time

\* the next instants at which a time test of the program changes its outcome
DueTimes ==
    LET bans   == BanTimes(sa_delay)
        resets == {sa_quota_usage[s].reset_time : s \in DOMAIN sa_quota_usage}
        cand   == bans \cup resets
                  \cup (IF uploader_delay = None THEN {} ELSE {uploader_delay})
                  \cup {24 * (((StartHour + now) \div 24) + 1) - StartHour}
    IN  {x \in cand : x > now /\ x <= MaxTime}

\* time passes while nothing runs, and while the driver runs before its first
\* completion line
tick ==
    /\ rpc = "none" \/ (rpc = "driving" /\ drv.files = 0)
    /\ DueTimes # {}
    /\ now' = SetMin(DueTimes)
    /\ UNCHANGED <<sa_quota_usage, sa_delay, uploader_delay, sa_enabled, cache_has_files,
                   upload_lock, pc, rpc, run, drv, obs, last_tick, last_quota_op>>

Next ==
    \/ \E over_limit \in BOOLEAN, in_window \in BOOLEAN :
          scheduled_uploader(over_limit, in_window)
    \/ direct_upload
    \/ \E p \in Proc : lock_acquire(p)
    \/ run_start
    \/ pick_identity
    \/ stage_launch
    \/ after_stages
    \/ run_finish
    \/ \E file_size \in FileSizes : driver_copied(file_size)
    \/ driver_exit_0
    \/ driver_max_transfer
    \/ \E h \in SleepHours : driver_trigger_abort(h)
    \/ \E return_code \in ErrorCodes : driver_tool_error(return_code)
    \/ tick

Spec == Init /\ [][Next]_vars

\* ===========================================================================
\* The life of the throttle monitors: do_upload starting do_plex_monitor as a
\* thread under the upload lock, in the scheduler's process and in the process
\* of an "upload" command, with plex enabled and the uploader throttleable.
\* The lock is a file both processes see; plex_monitor_thread is a global of
\* each process.
\* ===========================================================================

\* the number of upload runs, and so of monitor threads, of one behaviour
MaxRuns == 3

Tasks == 1..MaxRuns

\* where a monitor thread is in do_plex_monitor
TaskUnborn == [owner |-> NoHolder, at |-> "unborn"]

\* the threads that have been started and have not ended
LiveTasks(tasks) == {t \in Tasks : tasks[t].at \notin {"unborn", "done"}}

\* do_upload: "conf.configs['plex']['enabled'] and plex_monitor_thread is None"
monitor_wanted(thread) == thread = None

InitMonitor ==
    /\ now = 0
    /\ sa_quota_usage = EmptyDict
    /\ sa_delay = [s \in SAs |-> None]
    /\ uploader_delay = None
    /\ sa_enabled = FALSE
    /\ cache_has_files = FALSE
    /\ upload_lock = NoHolder
    /\ pc = [p \in Proc |-> "idle"]
    /\ rpc = "none"
    /\ run = [p \in Proc |-> None]
    /\ drv = [t \in Tasks |-> TaskUnborn]
    /\ obs = [runs |-> 0, pollers |-> {}, validation_failed |-> FALSE]
    /\ last_tick = TickNone
    /\ last_quota_op = QuotaOpNone

MonitorFrame ==
    UNCHANGED <<now, sa_quota_usage, sa_delay, uploader_delay, sa_enabled, cache_has_files,
                rpc, last_tick, last_quota_op>>

\* do_upload is called in process p and reaches "with lock_file:"
mon_dispatch(p) ==
    /\ pc[p] = "idle"
    /\ obs.runs < MaxRuns
    /\ pc' = [pc EXCEPT ![p] = "waiting"]
    /\ obs' = [obs EXCEPT !.runs = obs.runs + 1]
    /\ UNCHANGED <<upload_lock, run, drv>>
    /\ MonitorFrame

\* do_upload: the lock is taken
mon_lock_acquire(p) ==
    /\ pc[p] = "waiting"
    /\ lock_free(upload_lock)
    /\ upload_lock' = p
    /\ pc' = [pc EXCEPT ![p] = "locked"]
    /\ obs' = [obs EXCEPT !.pollers = {}]
    /\ UNCHANGED <<run, drv>>
    /\ MonitorFrame

\* do_upload: the stream monitor is started unless plex_monitor_thread is set
mon_start(p) ==
    /\ pc[p] = "locked"
    /\ pc' = [pc EXCEPT ![p] = "uploading"]
    /\ IF monitor_wanted(run[p])
       THEN LET t == SetMin({x \in Tasks : drv[x].at = "unborn"})
            IN  /\ drv' = [drv EXCEPT ![t] = [owner |-> p, at |-> "plex_validate"]]
                /\ run' = [run EXCEPT ![p] = t]
       ELSE UNCHANGED <<run, drv>>
    /\ UNCHANGED <<upload_lock, obs>>
    /\ MonitorFrame

\* do_upload: the end of "with lock_file:"
mon_release(p) ==
    /\ pc[p] = "uploading"
    /\ upload_lock' = NoHolder
    /\ pc' = [pc EXCEPT ![p] = "idle"]
    /\ UNCHANGED <<run, drv, obs>>
    /\ MonitorFrame

\* do_plex_monitor: plex.validate()
mon_plex_validate(t, ok) ==
    /\ drv[t].at = "plex_validate"
    /\ IF ok
       THEN /\ drv' = [drv EXCEPT ![t].at = "rc_validate"]
            /\ UNCHANGED <<run, obs>>
       ELSE /\ drv' = [drv EXCEPT ![t].at = "done"]
            /\ run' = [run EXCEPT ![drv[t].owner] = None]
            /\ obs' = [obs EXCEPT !.validation_failed = TRUE]
    /\ UNCHANGED <<upload_lock, pc>>
    /\ MonitorFrame

\* do_plex_monitor: time.sleep(15) and rclone.validate()
mon_rc_validate(t, ok) ==
    /\ drv[t].at = "rc_validate"
    /\ IF ok
       THEN /\ drv' = [drv EXCEPT ![t].at = "loop"]
            /\ UNCHANGED <<run, obs>>
       ELSE /\ drv' = [drv EXCEPT ![t].at = "done"]
            /\ run' = [run EXCEPT ![drv[t].owner] = None]
            /\ obs' = [obs EXCEPT !.validation_failed = TRUE]
    /\ UNCHANGED <<upload_lock, pc>>
    /\ MonitorFrame

\* do_plex_monitor: "while lock_file.is_locked()" holds, one poll with its RC
\* calls and time.sleep(poll_interval)
mon_poll(t) ==
    /\ drv[t].at = "loop"
    /\ ~lock_free(upload_lock)
    /\ obs' = [obs EXCEPT !.pollers = obs.pollers \cup {t}]
    /\ UNCHANGED <<upload_lock, pc, run, drv>>
    /\ MonitorFrame

\* do_plex_monitor: "while lock_file.is_locked()" fails, the loop is left
mon_leave_loop(t) ==
    /\ drv[t].at = "loop"
    /\ lock_free(upload_lock)
    /\ drv' = [drv EXCEPT ![t].at = "exiting"]
    /\ UNCHANGED <<upload_lock, pc, run, obs>>
    /\ MonitorFrame

\* do_plex_monitor: plex_monitor_thread = None, and the thread ends
mon_exit(t) ==
    /\ drv[t].at = "exiting"
    /\ drv' = [drv EXCEPT ![t].at = "done"]
    /\ run' = [run EXCEPT ![drv[t].owner] = None]
    /\ UNCHANGED <<upload_lock, pc, obs>>
    /\ MonitorFrame

NextMonitor ==
    \/ \E p \in Proc : mon_dispatch(p)
    \/ \E p \in Proc : mon_lock_acquire(p)
    \/ \E p \in Proc : mon_start(p)
    \/ \E p \in Proc : mon_release(p)
    \/ \E t \in Tasks, ok \in BOOLEAN : mon_plex_validate(t, ok)
    \/ \E t \in Tasks, ok \in BOOLEAN : mon_rc_validate(t, ok)
    \/ \E t \in Tasks : mon_poll(t)
    \/ \E t \in Tasks : mon_leave_loop(t)
    \/ \E t \in Tasks : mon_exit(t)

SpecMonitor == InitMonitor /\ [][NextMonitor]_vars

\* the monitor threads of process p that poll or are on their way to the loop
MonitorsFor(p) ==
    {t \in Tasks : drv[t].owner = p /\ drv[t].at \in {"plex_validate", "rc_validate", "loop"}}

\* C29: while no validation has failed, an upload run that ends has a monitor
\* of its process that polls or is about to, whatever the interleaving of the
\* run with the end of the previous monitor; and a monitor leaves its loop only
\* when the lock is free.
C29_MonitorForEveryRun ==
    [][ /\ \A p \in Proc :
              (pc[p] = "uploading" /\ pc'[p] = "idle" /\ ~obs.validation_failed)
              => MonitorsFor(p) # {}
        /\ \A t \in Tasks :
              (drv[t].at = "loop" /\ drv'[t].at # "loop") => upload_lock = NoHolder ]_vars

\* C30: at most one monitor thread exists at any time, and the polls made while
\* the lock is held by one run come from one monitor.
C30_OneMonitor ==
    /\ Cardinality(LiveTasks(drv)) <= 1
    /\ Cardinality(obs.pollers) <= 1

\* ===========================================================================
\* Chunked upload: runs of do_upload with chunked_upload.enabled, on a weekend
\* (no cache excludes), from the generation of the file list to the end of the
\* run.  The remaining quota of an identity is read at the start of its pass
\* and goes down by what the driver invocations charge.
\* ===========================================================================

\* the largest number of chunk files create_chunks makes
MaxChunks == 2
\* the driver invocations of one run are counted up to this number
MaxLaunches == 4

\* the count of driver invocations after one more
one_more_launch(launches) == IF launches < MaxLaunches THEN launches + 1 ELSE launches

\* what get_sa_remaining_quota returns at the start of the pass of an identity
ChunkQuotas == {0, 5, 30}
\* what one driver invocation charges to the ledger
ChunkCharges == {0, 15}
\* how a driver invocation ends: exit code 0, exit code 7, a tool error, a
\* trigger abort
ChunkOutcomes == {"exit0", "exit7", "error", "trigger"}
\* the 'sleep' hours of the trigger
ChunkSleep == 6

\* the temporary files of a file list split into n chunks
TempFiles(n) == {<<"list", 0>>} \cup {<<"chunk", k>> : k \in 1..n}

\* the branch "if use_chunking and stage_number == 1" taken for no stage
chunked_stage_never(use_chunking, stage_number) == FALSE

\* do_upload: "if use_chunking and stage_number == 1"
chunked_stage(use_chunking, stage_number) == use_chunking /\ stage_number = 1

\* Uploader.upload: the response of an invocation that ends with outcome
chunk_response(outcome) ==
    IF outcome = "exit0" THEN upload_response(TRUE, 0, 0, 0)
    ELSE IF outcome = "exit7" THEN upload_response(TRUE, 7, 0, 0)
    ELSE IF outcome = "trigger" THEN upload_response(FALSE, -9, ChunkSleep, 0)
    ELSE upload_response(FALSE, 1, 0, 0)

\* do_upload: "resp = {...}" after the chunk loop, whatever the chunks returned
combined_response(chunk_resp) == [success |-> TRUE, delayed_check |-> 0]

\* the temporary files left when do_upload returns: the cleanup stands in the
\* branch of the uploaders without identities, where use_chunking is False
files_after_run(files, with_identities, use_chunking) ==
    IF ~with_identities /\ use_chunking THEN {} ELSE files

ChunkRunIdle ==
    [use_chunking |-> FALSE, chunks |-> 0, i |-> 0, sa_quota_remaining |-> 0,
     stage_number |-> 0, resp_bound |-> FALSE, resp_success |-> FALSE, resp_delay |-> 0]

ChunkDrvIdle == [running |-> FALSE, files_from |-> 0]

ChunkObsIdle ==
    [runs |-> 0, launches |-> 0, temp_files |-> {}, created |-> {}, plain |-> FALSE,
     chunked |-> FALSE, chunk_resp |-> chunk_response("exit0"), raised |-> FALSE,
     banned |-> {}]

InitChunk ==
    /\ now = 0
    /\ sa_quota_usage = EmptyDict
    /\ sa_delay = [s \in SAs |-> None]
    /\ uploader_delay = None
    /\ sa_enabled \in BOOLEAN
    /\ cache_has_files = FALSE
    /\ upload_lock = NoHolder
    /\ pc = [p \in Proc |-> "idle"]
    /\ rpc = "none"
    /\ run = ChunkRunIdle
    /\ drv = ChunkDrvIdle
    /\ obs = ChunkObsIdle
    /\ last_tick = TickNone
    /\ last_quota_op = QuotaOpNone

ChunkFrame ==
    UNCHANGED <<now, sa_quota_usage, sa_delay, uploader_delay, sa_enabled, cache_has_files,
                last_tick, last_quota_op>>

\* do_upload from the lock to the identity loop: the file list is generated
\* (list_ok) and split into n chunk files (none when create_chunks fails)
chunk_run_start(list_ok, n) ==
    /\ rpc = "none"
    /\ obs.runs < MaxRuns
    /\ upload_lock' = "sched"
    /\ pc' = [pc EXCEPT !["sched"] = "body"]
    /\ ~list_ok => n = 0
    /\ IF ~sa_enabled
       THEN /\ n = 0 /\ ~list_ok
            /\ run' = ChunkRunIdle
            /\ drv' = [running |-> TRUE, files_from |-> 0]
            /\ obs' = [obs EXCEPT !.runs = obs.runs + 1, !.launches = 1, !.created = {},
                                  !.plain = FALSE, !.chunked = FALSE, !.raised = FALSE,
                                  !.banned = {}]
            /\ rpc' = "driving"
       ELSE /\ run' = [ChunkRunIdle EXCEPT !.use_chunking = n > 0, !.chunks = n, !.i = 1]
            /\ drv' = ChunkDrvIdle
            /\ obs' = [obs EXCEPT !.runs = obs.runs + 1, !.launches = 0,
                                  !.temp_files = IF n > 0 THEN obs.temp_files \cup TempFiles(n)
                                                 ELSE obs.temp_files,
                                  !.created = IF n > 0 THEN TempFiles(n) ELSE {},
                                  !.plain = FALSE, !.chunked = FALSE, !.raised = FALSE,
                                  !.banned = {}]
            /\ rpc' = "pick"
    /\ ChunkFrame

\* the identity loop moves on, or is over
ChunkNextAccount(r) ==
    IF r.i = NumSA THEN [rpc |-> "finish", run |-> r]
    ELSE [rpc |-> "pick", run |-> [r EXCEPT !.i = r.i + 1]]

\* one pass of the identity loop up to the stage loop
chunk_pick(quota) ==
    /\ rpc = "pick"
    /\ IF quota < SkipBelowGiB
       THEN /\ rpc' = ChunkNextAccount(run).rpc
            /\ run' = ChunkNextAccount(run).run
       ELSE /\ rpc' = "stage"
            /\ run' = [run EXCEPT !.sa_quota_remaining = quota, !.stage_number = 1,
                                  !.resp_delay = 0, !.resp_success = FALSE]
    /\ UNCHANGED <<upload_lock, pc, drv, obs>>
    /\ ChunkFrame

\* the stage loop goes on: the first driver invocation of the stage is started,
\* with the first chunk file in the chunked branch
chunk_stage_launch ==
    /\ rpc = "stage"
    /\ stage_loop_condition(run.sa_quota_remaining)
    /\ drv' = [running |-> TRUE,
               files_from |-> IF chunked_stage(run.use_chunking, run.stage_number)
                              THEN 1 ELSE 0]
    /\ obs' = [obs EXCEPT !.launches = one_more_launch(obs.launches),
                          !.plain = obs.plain \/ drv'.files_from = 0,
                          !.chunked = obs.chunked \/ drv'.files_from > 0]
    /\ rpc' = "driving"
    /\ UNCHANGED <<upload_lock, pc, run>>
    /\ ChunkFrame

\* the driver invocation of a chunk returns: the chunk loop goes on with the
\* next chunk file, or ends and the stage gets its response
chunk_returns(outcome, charged) ==
    LET chunk_resp == chunk_response(outcome)
        quota == Max(0, run.sa_quota_remaining - charged)
        resp == combined_response(chunk_resp)
        more == /\ chunk_resp.success
                /\ ~(quota < StageAboveGiB)
                /\ drv.files_from < run.chunks
    IN  /\ rpc = "driving"
        /\ sa_enabled
        /\ drv.files_from > 0
        /\ IF more
           THEN /\ drv' = [running |-> TRUE, files_from |-> drv.files_from + 1]
                /\ run' = [run EXCEPT !.sa_quota_remaining = quota]
                /\ obs' = [obs EXCEPT !.launches = one_more_launch(obs.launches),
                                      !.chunk_resp = chunk_resp]
                /\ UNCHANGED rpc
           ELSE /\ drv' = ChunkDrvIdle
                /\ run' = [run EXCEPT !.sa_quota_remaining = quota, !.resp_bound = TRUE,
                                      !.resp_success = resp.success,
                                      !.resp_delay = resp.delayed_check]
                /\ obs' = [obs EXCEPT !.chunk_resp = chunk_resp]
                /\ rpc' = "stage"
        /\ UNCHANGED <<upload_lock, pc>>
        /\ ChunkFrame

\* the driver invocation of a stage without a chunk file returns
plain_returns(outcome, charged) ==
    LET resp == chunk_response(outcome)
    IN  /\ rpc = "driving"
        /\ sa_enabled
        /\ drv.files_from = 0
        /\ drv' = ChunkDrvIdle
        /\ run' = [run EXCEPT !.sa_quota_remaining = Max(0, run.sa_quota_remaining - charged),
                              !.resp_bound = TRUE, !.resp_success = resp.success,
                              !.resp_delay = resp.delayed_check]
        /\ rpc' = "stage"
        /\ UNCHANGED <<upload_lock, pc, obs>>
        /\ ChunkFrame

\* the only driver invocation of an uploader without identities returns
single_returns(outcome) ==
    /\ rpc = "driving"
    /\ ~sa_enabled
    /\ drv' = ChunkDrvIdle
    /\ rpc' = "finish"
    /\ UNCHANGED <<upload_lock, pc, run, obs>>
    /\ ChunkFrame

\* the stage loop is left: the rest of the pass of the identity loop (the
\* responses of a weekend run report no cached files)
chunk_after_stages ==
    /\ rpc = "stage"
    /\ ~stage_loop_condition(run.sa_quota_remaining)
    /\ IF ~run.resp_bound
       THEN /\ rpc' = "finish"
            /\ obs' = [obs EXCEPT !.raised = TRUE]
            /\ UNCHANGED run
       ELSE IF run.resp_delay # 0
            THEN /\ rpc' = ChunkNextAccount(run).rpc
                 /\ run' = ChunkNextAccount(run).run
                 /\ obs' = [obs EXCEPT !.banned = obs.banned \cup {run.i}]
            ELSE /\ rpc' = "finish"
                 /\ UNCHANGED <<run, obs>>
    /\ UNCHANGED <<upload_lock, pc, drv>>
    /\ ChunkFrame

\* the end of do_upload
chunk_run_finish ==
    /\ rpc = "finish"
    /\ rpc' = "none"
    /\ upload_lock' = NoHolder
    /\ pc' = [pc EXCEPT !["sched"] = "idle"]
    /\ obs' = [obs EXCEPT !.temp_files =
                    (obs.temp_files \ obs.created)
                        \cup files_after_run(obs.created, sa_enabled, run.use_chunking)]
    /\ UNCHANGED <<run, drv>>
    /\ ChunkFrame

NextChunk ==
    \/ \E list_ok \in BOOLEAN, n \in 0..MaxChunks : chunk_run_start(list_ok, n)
    \/ \E quota \in ChunkQuotas : chunk_pick(quota)
    \/ chunk_stage_launch
    \/ \E outcome \in ChunkOutcomes, charged \in ChunkCharges : chunk_returns(outcome, charged)
    \/ \E outcome \in ChunkOutcomes, charged \in ChunkCharges : plain_returns(outcome, charged)
    \/ \E outcome \in ChunkOutcomes : single_returns(outcome)
    \/ chunk_after_stages
    \/ chunk_run_finish

SpecChunk == InitChunk /\ [][NextChunk]_vars

\* the same runs when no step of do_upload is postponed forever: the process
\* keeps running and every driver invocation returns
SpecChunkFair ==
    /\ SpecChunk
    /\ WF_vars(chunk_stage_launch)
    /\ WF_vars(\E outcome \in ChunkOutcomes, charged \in ChunkCharges :
                   chunk_returns(outcome, charged))
    /\ WF_vars(\E outcome \in ChunkOutcomes, charged \in ChunkCharges :
                   plain_returns(outcome, charged))
    /\ WF_vars(\E outcome \in ChunkOutcomes : single_returns(outcome))
    /\ WF_vars(\E quota \in ChunkQuotas : chunk_pick(quota))
    /\ WF_vars(chunk_after_stages)
    /\ WF_vars(chunk_run_finish)

MaxLedger == 2

\* json.dump(sa_quota_usage, f, indent=2): the text of the ledger, one token
\* for each bracket and one for the entry of each identity
json_dump(usage) ==
    <<(<<"{", 0, 0>>)>> \o [k \in 1..NumSA |-> <<"sa", k, usage[k]>>] \o <<(<<"}", 0, 0>>)>>

\* open(sa_quota_cache_file, 'w'): the file is truncated
save_open(file) == << >>

LedgerFileIdle(usage) == [file |-> json_dump(usage), writing |-> FALSE, prev |-> json_dump(usage)]

LedgerObsIdle == [done |-> FALSE, read |-> << >>, prev |-> << >>, next |-> << >>]

InitLedger ==
    /\ now = 0
    /\ sa_quota_usage = [s \in SAs |-> 0]
    /\ sa_delay = [s \in SAs |-> None]
    /\ uploader_delay = None
    /\ sa_enabled = TRUE
    /\ cache_has_files = FALSE
    /\ upload_lock = NoHolder
    /\ pc = [p \in Proc |-> "idle"]
    /\ rpc = "none"
    /\ run = LedgerFileIdle(sa_quota_usage)
    /\ drv = DrvIdle
    /\ obs = LedgerObsIdle
    /\ last_tick = TickNone
    /\ last_quota_op = QuotaOpNone

LedgerFrame ==
    UNCHANGED <<now, sa_delay, uploader_delay, sa_enabled, cache_has_files, upload_lock, pc,
                rpc, drv, last_tick, last_quota_op>>

\* update_sa_quota_usage up to the open of the file in save_sa_quota_cache
ledger_update(sa, bytes_uploaded) ==
    /\ ~run.writing
    /\ sa_quota_usage[sa] + bytes_uploaded <= MaxLedger
    /\ sa_quota_usage' = [sa_quota_usage EXCEPT ![sa] = @ + bytes_uploaded]
    /\ run' = [file |-> save_open(run.file), writing |-> TRUE, prev |-> run.file]
    /\ UNCHANGED obs
    /\ LedgerFrame

\* json.dump writes the next part of the text
ledger_write ==
    /\ run.writing
    /\ Len(run.file) < Len(json_dump(sa_quota_usage))
    /\ run' = [run EXCEPT !.file = SubSeq(json_dump(sa_quota_usage), 1, Len(run.file) + 1)]
    /\ UNCHANGED <<sa_quota_usage, obs>>
    /\ LedgerFrame

\* the end of the "with open(...)" block: the file is closed
ledger_close ==
    /\ run.writing
    /\ run.file = json_dump(sa_quota_usage)
    /\ run' = [run EXCEPT !.writing = FALSE]
    /\ UNCHANGED <<sa_quota_usage, obs>>
    /\ LedgerFrame

\* another process opens the file and reads it
ledger_read ==
    /\ obs' = [done |-> TRUE, read |-> run.file, prev |-> run.prev,
               next |-> json_dump(sa_quota_usage)]
    /\ UNCHANGED <<sa_quota_usage, run>>
    /\ LedgerFrame

NextLedger ==
    \/ \E sa \in SAs, bytes_uploaded \in 1..MaxLedger : ledger_update(sa, bytes_uploaded)
    \/ ledger_write
    \/ ledger_close
    \/ ledger_read

SpecLedger == InitLedger /\ [][NextLedger]_vars

\* C33: what a reader of the ledger file reads is the complete document of
\* before the flush or the complete document the flush writes.
C33_ReaderSeesFullDocument ==
    obs.done => obs.read \in {obs.prev, obs.next}

\* ===========================================================================
\* FileChunker.create_chunks: the lines of a file list are split into chunk
\* files.  A chunk file is the sequence of the lines written to it.
\* ===========================================================================

\* the largest number of lines of a file list
MaxLines == 3
\* the largest configured chunk_size
MaxChunkSize == 2

\* the lines of a file list: names, a name after a blank, an empty line, a line
\* of one blank
ListLines == {"a", "b", " a", "", " "}

\* str.strip()
strip(line) == IF line = " a" THEN "a" ELSE IF line = " " THEN "" ELSE line

\* a chunk that is closed only when it holds more than chunk_size lines
chunk_full_late(current_chunk, chunk_size) == Len(current_chunk) > chunk_size

\* create_chunks: "if len(current_chunk) >= chunk_size"
chunk_full(current_chunk, chunk_size) == Len(current_chunk) >= chunk_size

RECURSIVE create_chunks_from(_, _, _, _, _)
\* create_chunks: the loop over the lines from line k on, and what follows it
create_chunks_from(lines, chunk_size, k, current_chunk, chunks) ==
    IF k > Len(lines)
    THEN IF current_chunk # << >> THEN Append(chunks, current_chunk) ELSE chunks
    ELSE LET line == strip(lines[k])
         IN  IF line = ""
             THEN create_chunks_from(lines, chunk_size, k + 1, current_chunk, chunks)
             ELSE IF chunk_full(Append(current_chunk, line), chunk_size)
                  THEN create_chunks_from(lines, chunk_size, k + 1, << >>,
                                          Append(chunks, Append(current_chunk, line)))
                  ELSE create_chunks_from(lines, chunk_size, k + 1,
                                          Append(current_chunk, line), chunks)

\* FileChunker.create_chunks(list_file, chunk_size)
create_chunks(lines, chunk_size) == create_chunks_from(lines, chunk_size, 1, << >>, << >>)

SplitObsIdle == [done |-> FALSE, raised |-> FALSE, chunks |-> << >>]

InitSplit ==
    /\ now = 0
    /\ sa_quota_usage = EmptyDict
    /\ sa_delay = [s \in SAs |-> None]
    /\ uploader_delay = None
    /\ sa_enabled = TRUE
    /\ cache_has_files = FALSE
    /\ upload_lock = NoHolder
    /\ pc = [p \in Proc |-> "idle"]
    /\ rpc = "none"
    /\ \E n \in 1..MaxLines, chunk_size \in 0..MaxChunkSize :
         \E lines \in [1..n -> ListLines] :
            run = [lines |-> lines, chunk_size |-> chunk_size]
    /\ drv = DrvIdle
    /\ obs = SplitObsIdle
    /\ last_tick = TickNone
    /\ last_quota_op = QuotaOpNone

SplitFrame ==
    UNCHANGED <<now, sa_quota_usage, sa_delay, uploader_delay, sa_enabled, cache_has_files,
                upload_lock, pc, rpc, run, drv, last_tick, last_quota_op>>

\* create_chunks returns the chunks
create_chunks_returns ==
    /\ ~obs.done
    /\ obs' = [done |-> TRUE, raised |-> FALSE,
               chunks |-> create_chunks(run.lines, run.chunk_size)]
    /\ SplitFrame

\* reading the list or writing a chunk file raises: "except Exception: return []"
create_chunks_raises ==
    /\ ~obs.done
    /\ obs' = [done |-> TRUE, raised |-> TRUE, chunks |-> << >>]
    /\ SplitFrame

NextSplit ==
    \/ create_chunks_returns
    \/ create_chunks_raises

SpecSplit == InitSplit /\ [][NextSplit]_vars

RECURSIVE Flatten(_)
\* the chunks one after the other
Flatten(chunks) == IF chunks = << >> THEN << >> ELSE Head(chunks) \o Flatten(Tail(chunks))

NonEmpty(line) == line # ""

\* the sizes of the chunks: all chunk_size, but the last from 1 to chunk_size
ChunkSizesOk(chunks, chunk_size) ==
    /\ \A k \in 1..(Len(chunks) - 1) : Len(chunks[k]) = chunk_size
    /\ chunks # << >> => Len(chunks[Len(chunks)]) \in 1..chunk_size

\* C35: the chunks of create_chunks, one after the other, are the non-empty
\* lines of the file list in order, every chunk but the last holds chunk_size
\* lines and the last from 1 to chunk_size lines.
C35_ChunksPartitionTheList ==
    obs.done =>
        /\ Flatten(obs.chunks) = SelectSeq(run.lines, NonEmpty)
        /\ ChunkSizesOk(obs.chunks, run.chunk_size)

\* C35 (amended): with a chunk_size of at least 1 and no exception, the chunks
\* one after the other are the lines of the list stripped of surrounding white
\* space, without those that are empty after stripping, in order; the sizes are
\* as claimed.
C35_ChunksPartitionStrippedLines ==
    (obs.done /\ ~obs.raised /\ run.chunk_size >= 1) =>
        /\ Flatten(obs.chunks) = SelectSeq([k \in 1..Len(run.lines) |-> strip(run.lines[k])],
                                           NonEmpty)
        /\ ChunkSizesOk(obs.chunks, run.chunk_size)

\* a list of three names, one of them after a blank, split into a full chunk
\* and a last chunk of one line
C35_Witness ==
    /\ obs.done
    /\ ~obs.raised
    /\ run.chunk_size = 2
    /\ run.lines = <<"a", " a", "b">>
    /\ Len(obs.chunks) = 2

\* ===========================================================================
\* init_service_accounts for one uploader with a service_account_path: the
\* cached identity ban ledger is brought in line with the credential files of
\* the directory.  In this specification sa_delay is the ledger of the uploader:
\* whether sa_delay[uploader_remote] is a dict (cached) and the dict from
\* credential files to their ban; run holds the files of the directory at the
\* last call.
\* ===========================================================================

\* the credential files that can be in the directory
NumAccounts == 3
Accounts == 1..NumAccounts

\* the expiry of a ban in force, and the last instant looked at
BanExpiry == 2
MaxClock == 3

\* sa_delay[uploader_remote] is None
Uncached == [cached |-> FALSE, accounts |-> EmptyDict]

\* the ledgers the cache can hold
CachedLedgers ==
    {[cached |-> TRUE, accounts |-> d] :
        d \in UNION {[S -> {None, BanExpiry}] : S \in SUBSET Accounts}}

\* init_service_accounts: the ledger after the call, for the files accounts
accounts_after_init(current_accounts, accounts) ==
    [cached |-> TRUE,
     accounts |->
        IF ~current_accounts.cached
        THEN [a \in accounts |-> None]
        ELSE [a \in (DOMAIN current_accounts.accounts \cap accounts) \cup accounts |->
                 IF a \in DOMAIN current_accounts.accounts
                 THEN current_accounts.accounts[a] ELSE None]]

\* init_service_accounts: "if len(current_accounts) < len(accounts)", tested
\* after the new files have been added to current_accounts
bans_lifted(current_accounts, accounts) ==
    /\ current_accounts.cached
    /\ Cardinality(DOMAIN accounts_after_init(current_accounts, accounts).accounts)
         < Cardinality(accounts)

\* do_upload bans the uploader when no identity of the ledger is available
all_banned(ledger) ==
    /\ ledger.cached
    /\ DOMAIN ledger.accounts # {}
    /\ \A a \in DOMAIN ledger.accounts : ledger.accounts[a] # None

InitAccounts ==
    /\ now = 0
    /\ sa_quota_usage = EmptyDict
    /\ sa_delay \in CachedLedgers \cup {Uncached}
    /\ uploader_delay \in {None, BanExpiry}
    /\ uploader_delay # None => all_banned(sa_delay)
    /\ sa_enabled = TRUE
    /\ cache_has_files = FALSE
    /\ upload_lock = NoHolder
    /\ pc = [p \in Proc |-> "idle"]
    /\ rpc = "none"
    /\ run = [called |-> FALSE, accounts |-> {}, suspended |-> FALSE]
    /\ drv = DrvIdle
    /\ obs = ObsIdle
    /\ last_tick = TickNone
    /\ last_quota_op = QuotaOpNone

AccountsFrame ==
    UNCHANGED <<sa_quota_usage, sa_enabled, cache_has_files, upload_lock, pc, rpc, drv,
                obs, last_tick, last_quota_op>>

\* init_service_accounts, with the credential files accounts in the directory
init_service_accounts(accounts) ==
    /\ sa_delay' = accounts_after_init(sa_delay, accounts)
    /\ uploader_delay' = IF bans_lifted(sa_delay, accounts) THEN None ELSE uploader_delay
    /\ run' = [called |-> TRUE, accounts |-> accounts, suspended |-> FALSE]
    /\ UNCHANGED now
    /\ AccountsFrame

\* scheduled_uploader: check_suspended_uploaders(uploader_name) at a tick
accounts_check_suspended ==
    /\ run.called
    /\ run' = [run EXCEPT !.suspended = uploader_delay # None /\ now < uploader_delay]
    /\ uploader_delay' = IF uploader_delay # None /\ now < uploader_delay
                         THEN uploader_delay ELSE None
    /\ UNCHANGED <<now, sa_delay>>
    /\ AccountsFrame

\* time passes
accounts_time_passes ==
    /\ now < MaxClock
    /\ now' = now + 1
    /\ UNCHANGED <<sa_delay, uploader_delay, run>>
    /\ AccountsFrame

NextAccounts ==
    \/ \E accounts \in SUBSET Accounts : init_service_accounts(accounts)
    \/ accounts_check_suspended
    \/ accounts_time_passes

SpecAccounts == InitAccounts /\ [][NextAccounts]_vars

\* C40: when init_service_accounts finds credential files that are not in the
\* cached ledger, they are in the ledger afterwards, unbanned, and the uploader
\* is not banned.
C40_NewAccountsLiftBan ==
    [][ ( /\ run'.called
          /\ sa_delay' # sa_delay
          /\ sa_delay.cached
          /\ run'.accounts \ DOMAIN sa_delay.accounts # {} )
        => /\ \A a \in run'.accounts \ DOMAIN sa_delay.accounts : sa_delay'.accounts[a] = None
           /\ uploader_delay' = None ]_vars

\* ===========================================================================
\* Properties
\* ===========================================================================

\* C1: at most one caller of do_upload is inside its body, and that caller holds
\* the upload lock; a second caller stays at the lock meanwhile.
C1_OneOrchestrator ==
    \A p \in Proc :
        pc[p] = "body" =>
            /\ upload_lock = p
            /\ \A q \in Proc \ {p} : pc[q] # "body"

\* one caller runs the driver while the other waits at the lock
C1_Witness ==
    \E p \in Proc, q \in Proc :
        p # q /\ pc[p] = "body" /\ pc[q] = "waiting" /\ rpc = "driving"

LastCandidate == run.available_accounts[Len(run.available_accounts)]

AllBanned == \A s \in SAs : sa_delay[s] # None /\ now < sa_delay[s]

\* the step is a call of scheduled_uploader
SchedulerTicks == pc["sched"] = "idle" /\ (last_tick' # last_tick \/ pc'["sched"] # "idle")

\* C9: a run that starts with every identity banned starts no driver and sets
\* the uploader ban to the earliest identity ban expiry; a scheduler tick before
\* the uploader ban expires neither measures the folder nor calls the
\* orchestrator, and a tick at or after the expiry removes the uploader ban.
C9_AllBannedSuspendsUploader ==
    [][ /\ (rpc = "start" /\ rpc' # "start" /\ sa_enabled /\ AllBanned) =>
              /\ rpc' = "finish"
              /\ drv' = DrvIdle
              /\ uploader_delay' = SetMin(BanTimes(sa_delay))
        /\ (SchedulerTicks /\ uploader_delay # None /\ now < uploader_delay) =>
              /\ ~last_tick'.measured
              /\ pc'["sched"] = "idle"
              /\ uploader_delay' = uploader_delay
        /\ (SchedulerTicks /\ uploader_delay # None /\ now >= uploader_delay) =>
              uploader_delay' = None ]_vars

\* both identities banned until 5 and 8: the run has set the uploader ban to 5
\* and a scheduler tick before 5 has been skipped
C9_Witness ==
    /\ AllBanned
    /\ uploader_delay = SetMin(BanTimes(sa_delay))
    /\ now < uploader_delay
    /\ last_tick.result = "suspended"
    /\ pc["sched"] = "idle"
    /\ rpc = "none"

C11_LastSkipSetsUploaderBan ==
    [][ (rpc = "pick" /\ rpc' = "finish") =>
          /\ uploader_delay' # None
          /\ uploader_delay' = get_lowest_remaining_time(sa_delay') ]_vars

\* C12: a stage is started only while the remaining quota of the identity is
\* strictly above 10 GiB; at exactly 10 GiB, before the first stage or after a
\* stage, no stage is started under the identity.
C12_StageOnlyAboveTen ==
    [][ (rpc = "stage" /\ rpc' = "driving") =>
          /\ run.sa_quota_remaining > StageAboveGiB
          /\ drv'.sa = run.sa_file ]_vars

\* a stage that completed one 4 GiB file has left its identity exactly 10 GiB
C12_Witness ==
    /\ rpc = "stage"
    /\ obs.last_end = "exit0"
    /\ obs.last_sa = run.sa_file
    /\ obs.last_sum = 4
    /\ run.sa_quota_remaining = StageAboveGiB

\* the remaining quota the pass of the identity loop reads for its candidate
PickQuota == get_sa_remaining_quota(sa_quota_usage, run.available_accounts[run.i], now).ret

\* C13: a candidate with exactly 1 GiB left is skipped: no stage loop is entered
\* for it and the rotator moves on.
C13_ExactlyOneGiBSkipped ==
    [][ (rpc = "pick" /\ PickQuota = SkipBelowGiB) => rpc' # "stage" ]_vars

\* C14: the identity under which a driver invocation is running has no ban.
C14_ActiveIdentityNotBanned ==
    (rpc = "driving" /\ drv.sa # None) => sa_delay[drv.sa] = None

\* a trigger aborted the stage of one identity, which got a ban that is still
\* running, and the driver now runs under the next identity
C14_Witness ==
    /\ rpc = "driving"
    /\ drv.sa # None
    /\ obs.last_end = "abort"
    /\ obs.last_sa # None
    /\ obs.last_sa # drv.sa
    /\ sa_delay[obs.last_sa] # None
    /\ now < sa_delay[obs.last_sa]

\* C22: the sweep of the quota ledger clears the ban of an identity whose entry
\* it purges only when the ban ends exactly at the entry's reset time; a ban
\* that ends at another instant, and has not ended yet, is left as it is.
C22_SweepKeepsOtherBans ==
    [][ \A s \in SAs :
          ( /\ s \in ExpiredQuotas(sa_quota_usage, now)
            /\ sa_delay[s] # None
            /\ sa_delay[s] # sa_quota_usage[s].reset_time
            /\ now <= sa_delay[s] )
          => sa_delay'[s] = sa_delay[s] ]_vars

\* C27: a call of do_upload that found the lock held by a running upload does
\* nothing, while that run is active and after it has released the lock: it
\* never takes the lock and enters the body of do_upload, where the drivers
\* are launched and the ledger is charged.
C27_BlockedDispatchIsNoOp ==
    [][ \A p \in Proc :
          pc[p] = "blocked" => /\ pc'[p] \in {"blocked", "idle"}
                               /\ upload_lock' # p ]_vars

\* C31: a run that paused the download queue has resumed it when it ends and
\* releases the lock, on every exit path.
C31_QueueResumed ==
    [][ (rpc = "finish" /\ rpc' = "none" /\ run.nzbget_paused)
        => (~run'.nzbget_paused /\ upload_lock' = NoHolder) ]_vars

C38_BaseConfigUnchanged == [][run'.rclone_config = run.rclone_config]_vars

\* C39: when the stage loop of an identity with 1 to 10 GiB left ends without a
\* stage and a later candidate has more than 10 GiB left, the run does not end
\* there.
C39_NoStageIdentityPassedOver ==
    [][ ( /\ rpc = "stage"
          /\ run.sa_quota_remaining >= SkipBelowGiB
          /\ run.sa_quota_remaining <= StageAboveGiB
          /\ obs.last_sa # run.sa_file
          /\ \E j \in (run.i + 1)..Len(run.available_accounts) :
                get_sa_remaining_quota(sa_quota_usage, run.available_accounts[j], now).ret
                    > StageAboveGiB )
        => rpc' # "finish" ]_vars

====
